---- MODULE Spec2Model ----
(***************************************************************************)
(* Configuration and recognition pipeline of the image-recognition AR      *)
(* experience: the configuration loader (Supabase first, products.json as  *)
(* fallback), the per-entity targetFound/targetLost listeners of the       *)
(* loader and of app.js, the ML classifier and the analytics client.       *)
(*                                                                         *)
(* JavaScript runs one task at a time: an action below is one task (a DOM  *)
(* event dispatch, a timer callback, the resolution of a promise) together *)
(* with the microtasks it triggers.  Confidences are percentages (0..100). *)
(***************************************************************************)
EXTENDS Integers, Sequences, FiniteSets, TLC

VARIABLES
  CONFIG,               \* window.CONFIG: features / analytics / performance flags,
                        \* analytics.sessionId
  clientReady,          \* SupabaseClient.isReady()
  useSupabase,          \* SupabaseConfigLoader.useSupabase
  products,             \* ARConfigLoader.products
  globalSettings,       \* ARConfigLoader.globalSettings
  cache,                \* SupabaseClient.cache entry 'products' (<<>> or <<rows>>)
  loadResult,           \* the last load of the catalog (loadConfig(), reload(), ...):
                        \* what it was given and its outcome
  subscription,         \* SupabaseConfigLoader.subscription is set
  startup,              \* app.js start-up: sceneLoaded, configReady, cameraReady, the
                        \* camera request, pending timeouts, arSystem.start() calls
  entities,             \* [mindar-image-target] entities of the scene, in DOM order
  assets,               \* ids of the a-asset-item elements under a-assets
  tracked,              \* last signal of the tracking engine per target index
  loaderCurrentProduct, \* ARConfigLoader.currentProduct
  productUI,            \* product whose #product-ui panel is shown
  windowEvents,         \* CustomEvents dispatched on window by the last task, in order
  eventQueue,           \* SupabaseClient.eventQueue
  inserted,             \* events the last task handed to the analytics_events transport
  requeued,             \* per queued event: times a failed bulk insert put it back
  sending,              \* bulk inserts in progress (sendEventBatch awaiting the transport)
  lastTelemetry,        \* the analytics entry point the last task ran, if it was one
  mlReady,              \* app.js mlReady
  currentProduct,       \* app.js currentProduct
  identifiedAt,         \* history: targetIndex of the entity whose listener set
                        \* currentProduct
  detectionInProgress,  \* app.js detectionInProgress
  timers,               \* pending 500 ms timer callbacks (the entity index each closes over)
  delays,               \* milliseconds before each pending timer is due
  sinceAttempt,         \* milliseconds since model.predict was last started (capped)
  initialized,          \* MLClassifier.initialized
  isProcessing,         \* MLClassifier.isProcessing
  confidenceThreshold,  \* MLClassifier.config.confidenceThreshold
  stats,                \* MLClassifier.stats
  predicting,           \* model.predict calls in progress (the entity index of the caller)
  lastClassification    \* what classifyProduct did in the last task, if it ran there:
                        \* rejected the call, started model.predict, or returned
                        \* after model.predict settled

vars == << CONFIG, clientReady, useSupabase, products, globalSettings, cache,
           loadResult, subscription, startup, entities, assets, tracked, loaderCurrentProduct, productUI,
           windowEvents, eventQueue, inserted, requeued, sending, lastTelemetry,
           mlReady, currentProduct, identifiedAt,
           detectionInProgress, timers, delays, sinceAttempt, initialized,
           isProcessing, confidenceThreshold, stats, predicting, lastClassification >>

loaderVars == << CONFIG, clientReady, useSupabase, products, globalSettings,
                 cache, loadResult, subscription, startup, entities, assets >>

recognitionVars == << tracked, loaderCurrentProduct, productUI, windowEvents,
                      eventQueue, inserted, mlReady, currentProduct, identifiedAt,
                      detectionInProgress, timers, delays >>

classifierVars == << initialized, isProcessing, confidenceThreshold, stats, predicting >>

NULL == "null"

(***************************************************************************)
(* Bounds of the model.                                                    *)
(***************************************************************************)
MaxTimers == 2           \* pending 500 ms timers
MaxClassifications == 1  \* stats.totalClassifications
TickMs == 250            \* milliseconds the clock advances in one step
MaxEventQueue == 2       \* analytics events queued or in a bulk insert in progress
MaxRequeues == 2         \* times one event is put back on the queue
MaxAssets == 3           \* a-asset-item elements in the document
MaxStartTimers == 2      \* pending timeouts of tryStartAR; pending initializeML calls

(***************************************************************************)
(* Catalog data.                                                           *)
(***************************************************************************)
Interactions(showUI, playSound, hideUI) ==
  [ onFound |-> [showUI |-> showUI, playSound |-> playSound],
    onLost  |-> [hideUI |-> hideUI] ]

\* A file path: where it points (local file, Supabase CDN, or the empty string).
Path(origin, filename) == [origin |-> origin, filename |-> filename]
EmptyPath == Path("empty", "")

\* A product's model section (x, y, z collapsed into one number) and ui section.
Model(path, position, rotation, scale, animationEnabled) ==
  [ path |-> path, position |-> position, rotation |-> rotation, scale |-> scale,
    animation |-> [enabled |-> animationEnabled] ]

UI(primary, title, buttons) ==
  [ colors |-> [primary |-> primary], content |-> [title |-> title],
    buttons |-> buttons ]

\* The sections model and ui are << >> when the object has no such property.
Product(id, targetIndex, imagePath, interactions) ==
  [ id |-> id, targetIndex |-> targetIndex,
    target |-> [imagePath |-> imagePath],
    model |-> << Model(Path("local", "model.glb"), 0, 0, 2, TRUE) >>,
    ui |-> << UI("#ff0000", id, << >>) >>,
    interactions |-> interactions ]

\* products.json documents the secondary backend can serve.
DocProducts3 ==
  << Product("product-1", 0, Path("local", "targets.mind"), Interactions(TRUE, FALSE, TRUE)),
     Product("product-2", 0, Path("local", "targets.mind"), Interactions(TRUE, TRUE, TRUE)),
     Product("product-3", 1, Path("local", "targets.mind"), Interactions(FALSE, FALSE, FALSE)) >>

DocProducts2 ==
  << Product("product-1", 0, Path("local", "targets.mind"), Interactions(TRUE, FALSE, TRUE)),
     Product("product-3", 1, Path("local", "other.mind"), Interactions(TRUE, FALSE, TRUE)) >>

\* A hand-edited document: an id used twice, and a product without a "ui" section.
DocProductsLoose ==
  << Product("product-1", 0, Path("local", "targets.mind"), Interactions(TRUE, FALSE, TRUE)),
     [ Product("product-1", 1, Path("local", "targets.mind"), Interactions(TRUE, FALSE, TRUE))
         EXCEPT !.ui = << >> ] >>

\* fetch('./products.json'): HTTP failure, a document without "products", or a document.
SecondaryResponses ==
  { [ok |-> FALSE, hasProducts |-> FALSE, products |-> << >>, globalSettings |-> << >>],
    [ok |-> TRUE,  hasProducts |-> FALSE, products |-> << >>, globalSettings |-> << >>],
    [ok |-> TRUE,  hasProducts |-> TRUE,  products |-> << >>, globalSettings |-> <<2>>],
    [ok |-> TRUE,  hasProducts |-> TRUE,  products |-> DocProducts2, globalSettings |-> <<2>>],
    [ok |-> TRUE,  hasProducts |-> TRUE,  products |-> DocProducts3, globalSettings |-> <<3>>] }

\* A row of product_models and of product_ui_config; a column is << >> when NULL.
ModelRow(glb_file_url, position_x, rotation_x, scale_x, animation_enabled) ==
  [ glb_file_url |-> glb_file_url, position_x |-> position_x, rotation_x |-> rotation_x,
    scale_x |-> scale_x, animation_enabled |-> animation_enabled ]

UIRow(color_primary, title) == [color_primary |-> color_primary, title |-> title]

\* What the query of getProducts returns for one product: the products row with the
\* relations the select names (product_targets, product_models, product_ui_config,
\* product_buttons).
Joined(product_id, target_index, product_targets, product_models, product_ui_config) ==
  [ product_id |-> product_id, target_index |-> target_index,
    product_targets |-> product_targets, product_models |-> product_models,
    product_ui_config |-> product_ui_config, product_buttons |-> << >> ]

Row(product_id, target_index, product_targets) ==
  Joined(product_id, target_index, product_targets,
         << ModelRow(Path("supabase.co", "model.glb"), <<0>>, <<0>>, <<2>>, <<TRUE>>) >>,
         << UIRow(<<"#ff0000">>, <<product_id>>) >>)

Rows2 ==
  << Row("product-1", 0, << [mind_file_path |-> Path("supabase.co", "targets.mind")] >>),
     Row("product-2", 0, << [mind_file_path |-> Path("local", "targets.mind")] >>) >>

\* A product with no target, model or ui rows.
Rows1 == << Joined("product-3", 1, << >>, << >>, << >>) >>

Rows3 ==
  << Row("product-1", 0, << [mind_file_path |-> Path("supabase.co", "targets.mind")] >>),
     Row("product-2", 0, << [mind_file_path |-> Path("supabase.co", "targets.mind")] >>),
     Row("product-3", 1, << [mind_file_path |-> Path("supabase.co", "targets.mind")] >>) >>

\* migrateProduct(product): what the migration script writes for one product of
\* products.json (asset files are uploaded, their columns hold the CDN address).
migrateProduct(product) ==
  [ product_id |-> product.id, target_index |-> product.targetIndex,
    status |-> "published",
    product_targets |-> << [mind_file_path |-> product.target.imagePath] >>,
    product_models |->
      << ModelRow(Path("supabase.co", product.model[1].path.filename),
                  <<product.model[1].position>>, <<product.model[1].rotation>>,
                  <<product.model[1].scale>>, <<product.model[1].animation.enabled>>) >>,
    product_ui_config |->
      << UIRow(<<product.ui[1].colors.primary>>, <<product.ui[1].content.title>>) >>,
    product_interactions |->
      << [ on_found_show_ui |-> product.interactions.onFound.showUI,
           on_found_play_sound |-> product.interactions.onFound.playSound,
           on_lost_hide_ui |-> product.interactions.onLost.hideUI ] >> ]

Migrated(doc) == [ i \in 1..Len(doc) |-> migrateProduct(doc[i]) ]

\* The select of getProducts over a table: the published products, each with its
\* product_targets, product_models, product_ui_config and product_buttons rows.
selectProducts(table) ==
  LET published == SelectSeq(table, LAMBDA r : r.status = "published")
  IN [ i \in 1..Len(published) |->
         Joined(published[i].product_id, published[i].target_index,
                published[i].product_targets, published[i].product_models,
                published[i].product_ui_config) ]

\* The query of getProducts: a transport error, or the published rows (possibly none).
PrimaryResponses ==
  { [error |-> TRUE,  data |-> << >>],
    [error |-> FALSE, data |-> << >>],
    [error |-> FALSE, data |-> Rows1],
    [error |-> FALSE, data |-> Rows2] }

\* The global_settings row: none (or an error), or its maxSimultaneousTargets value.
SettingsResponses == { << >>, <<1>> }

DefaultMaxSimultaneousTargets == 3

TrackEvents ==
  { "page_loaded", "product_found", "product_lost", "button_clicked",
    "model_loaded", "model_error", "target_error", "error_occurred" }

(***************************************************************************)
(* Analytics client.  The listeners below thread the fields they mutate    *)
(* through a record s (eventQueue, inserted, windowEvents, ...).           *)
(***************************************************************************)
\* generateSessionId(): session_<timestamp>_<random>, one of these when the page loads.
SessionIds == { "session_1_a" }

AnalyticsEvent(eventType, productId) ==
  [ event_type |-> eventType, product_id |-> productId,
    session_id |-> CONFIG.sessionId ]

\* trackEvent that stamps each event with a newly generated session id.
trackEvent_freshSessionId(s, eventType, productId) ==
  LET event == [ AnalyticsEvent(eventType, productId) EXCEPT
                   !.session_id = "session_2_b" ]
  IN IF ~CONFIG.analyticsEnabled THEN s
     ELSE IF ~clientReady THEN s
     ELSE IF eventType \notin TrackEvents THEN s
     ELSE IF CONFIG.batchEvents
          THEN [s EXCEPT !.eventQueue = Append(@, event)]
          ELSE [s EXCEPT !.inserted = Append(@, event)]

\* trackEvent without the analyticsEnabled test.
trackEvent_noEnabledTest(s, eventType, productId) ==
  IF ~clientReady THEN s
  ELSE IF eventType \notin TrackEvents THEN s
  ELSE IF CONFIG.batchEvents
       THEN [s EXCEPT !.eventQueue = Append(@, AnalyticsEvent(eventType, productId))]
       ELSE [s EXCEPT !.inserted = Append(@, AnalyticsEvent(eventType, productId))]

\* trackEvent that sends every event at once, batching or not.
trackEvent_alwaysImmediate(s, eventType, productId) ==
  IF ~CONFIG.analyticsEnabled THEN s
  ELSE IF ~clientReady THEN s
  ELSE IF eventType \notin TrackEvents THEN s
  ELSE [s EXCEPT !.inserted = Append(@, AnalyticsEvent(eventType, productId))]

trackEvent(s, eventType, productId) ==
  IF ~CONFIG.analyticsEnabled THEN s
  ELSE IF ~clientReady THEN s
  ELSE IF eventType \notin TrackEvents THEN s
  ELSE IF CONFIG.batchEvents
       THEN [s EXCEPT !.eventQueue = Append(@, AnalyticsEvent(eventType, productId))]
       ELSE [s EXCEPT !.inserted = Append(@, AnalyticsEvent(eventType, productId))]

\* push() appends: the events a task queued are new ones, never put back yet.
Pushed(queue) ==
  requeued' = requeued \o [ i \in 1..(Len(queue) - Len(eventQueue)) |-> 0 ]

NoTelemetry == << >>

Telemetry(call, eventType, productId, outcome, result) ==
  << [ call |-> call, eventType |-> eventType, productId |-> productId,
       outcome |-> outcome, result |-> result ] >>

\* What the transport does with an insert: accepts it, answers { error }, or throws.
TransportOutcomes == { "ok", "error", "throw" }

\* A bulk insert in progress: the events taken from the queue, and whether
\* flushEventQueue awaits it.
Batch(events, counts, flushing) ==
  [events |-> events, requeued |-> counts, flushing |-> flushing]

\* sendEventBatch_settled without the catch block.
sendEventBatch_settled_uncaught(batch, outcome) ==
  IF outcome = "error"
  THEN [ eventQueue |-> eventQueue \o batch.events,
         requeued |-> requeued \o [ i \in 1..Len(batch.requeued) |-> batch.requeued[i] + 1 ],
         threw |-> FALSE ]
  ELSE [ eventQueue |-> eventQueue, requeued |-> requeued, threw |-> outcome = "throw" ]

\* sendEventBatch once the insert has settled: the queue afterwards and whether the
\* promise of sendEventBatch rejects.
sendEventBatch_settled(batch, outcome) ==
  IF outcome = "error"
  THEN [ eventQueue |-> eventQueue \o batch.events,
         requeued |-> requeued \o [ i \in 1..Len(batch.requeued) |-> batch.requeued[i] + 1 ],
         threw |-> FALSE ]
  ELSE [ eventQueue |-> eventQueue, requeued |-> requeued, threw |-> FALSE ]

\* startEventQueueProcessor ran in SupabaseClient.initialize.
processorStarted == clientReady /\ CONFIG.analyticsEnabled /\ CONFIG.batchEvents

\* sendEventBatch up to its await: nothing to do on an empty queue; otherwise the
\* queue is emptied and its events go out as one insert (which throws at once,
\* into the catch block, when there is no client).
sendEventBatch_start_keepsQueue(flushing) ==
  IF eventQueue = << >>
  THEN [ eventQueue |-> eventQueue, requeued |-> requeued, sending |-> sending,
         inserted |-> << >>, settled |-> TRUE ]
  ELSE IF ~clientReady
  THEN [ eventQueue |-> << >>, requeued |-> << >>, sending |-> sending,
         inserted |-> << >>, settled |-> TRUE ]
  ELSE [ eventQueue |-> eventQueue, requeued |-> requeued,
         sending |-> Append(sending, Batch(eventQueue, requeued, flushing)),
         inserted |-> eventQueue, settled |-> FALSE ]

sendEventBatch_start(flushing) ==
  IF eventQueue = << >>
  THEN [ eventQueue |-> eventQueue, requeued |-> requeued, sending |-> sending,
         inserted |-> << >>, settled |-> TRUE ]
  ELSE IF ~clientReady
  THEN [ eventQueue |-> << >>, requeued |-> << >>, sending |-> sending,
         inserted |-> << >>, settled |-> TRUE ]
  ELSE [ eventQueue |-> << >>, requeued |-> << >>,
         sending |-> Append(sending, Batch(eventQueue, requeued, flushing)),
         inserted |-> eventQueue, settled |-> FALSE ]

(***************************************************************************)
(* Configuration loading.                                                  *)
(***************************************************************************)
convertTarget(targetData) ==
  IF targetData = << >> THEN [imagePath |-> EmptyPath]
  ELSE LET imagePath == targetData[1].mind_file_path
       IN [imagePath |-> IF imagePath.origin = "supabase.co"
                         THEN Path("local", imagePath.filename)
                         ELSE imagePath]

\* column ?? fallback (and column || fallback: no column here holds 0 or '').
OrElse(column, fallback) == IF column = << >> THEN fallback ELSE column[1]

convertModel(modelData) ==
  IF modelData = << >> THEN Model(EmptyPath, 0, 0, 1, FALSE)
  ELSE LET m == modelData[1]
       IN Model(m.glb_file_url, OrElse(m.position_x, 0), OrElse(m.rotation_x, 0),
                OrElse(m.scale_x, 1), OrElse(m.animation_enabled, FALSE))

convertUI(uiData, buttonsData) ==
  IF uiData = << >> THEN UI("#4CC3D9", "Product", << >>)
  ELSE UI(OrElse(uiData[1].color_primary, "#4CC3D9"), OrElse(uiData[1].title, "Product"),
          buttonsData)

convertProducts(supabaseProducts) ==
  [ i \in 1..Len(supabaseProducts) |->
      LET p == supabaseProducts[i]
      IN [ id |-> p.product_id,
           targetIndex |-> p.target_index,
           target |-> convertTarget(p.product_targets),
           model |-> << convertModel(p.product_models) >>,
           ui |-> << convertUI(p.product_ui_config, p.product_buttons) >>,
           interactions |-> Interactions(TRUE, FALSE, TRUE) ] ]

\* validateTargets with a throw where it logs "Multiple different .mind files".
validateTargets_throwsOnMismatch(prods) ==
  LET uniquePaths == { prods[i].target.imagePath : i \in 1..Len(prods) }
  IN IF Len(prods) = 0 THEN [threw |-> FALSE, report |-> "no products"]
     ELSE IF Cardinality(uniquePaths) = 1 THEN [threw |-> FALSE, report |-> "one file"]
     ELSE [threw |-> TRUE, report |-> "multiple files"]

\* validateTargets(): what it logs; nothing in it throws.
validateTargets(prods) ==
  LET uniquePaths == { prods[i].target.imagePath : i \in 1..Len(prods) }
  IN IF Len(prods) = 0 THEN [threw |-> FALSE, report |-> "no products"]
     ELSE IF Cardinality(uniquePaths) = 1 THEN [threw |-> FALSE, report |-> "one file"]
     ELSE [threw |-> FALSE, report |-> "multiple files"]

convertGlobalSettings(settingsData) ==
  IF settingsData = << >> THEN <<DefaultMaxSimultaneousTargets>> ELSE settingsData

\* SupabaseClient.getProducts: the rows returned (or a throw) and the cache afterwards.
\* cached is this.cache before the call; cacheFresh: an entry in it is younger than
\* cacheDuration.
getProducts(cached, pr, cacheFresh) ==
  IF ~clientReady
  THEN [threw |-> TRUE, data |-> << >>, cache |-> cached, queried |-> FALSE]
  ELSE IF cached # << >> /\ cacheFresh
  THEN [threw |-> FALSE, data |-> cached[1], cache |-> cached, queried |-> FALSE]
  ELSE IF pr.error
  THEN [threw |-> TRUE, data |-> << >>, cache |-> cached, queried |-> TRUE]
  ELSE IF Len(pr.data) = 0
  THEN [threw |-> FALSE, data |-> << >>, cache |-> cached, queried |-> TRUE]
  ELSE [threw |-> FALSE, data |-> pr.data,
        cache |-> IF CONFIG.cacheConfig THEN <<pr.data>> ELSE cached, queried |-> TRUE]

\* A loader state l: [products, globalSettings, cache, eventQueue, inserted] and the
\* outcome of the call.
Loaded(l, source, config, readJSON, queried) ==
  [ l |-> l, threw |-> FALSE, source |-> source, config |-> config,
    readJSON |-> readJSON, queried |-> queried,
    validation |-> validateTargets(l.products).report ]

Threw(l, readJSON, queried) ==
  [ l |-> l, threw |-> TRUE, source |-> "none", config |-> << >>,
    readJSON |-> readJSON, queried |-> queried, validation |-> "none" ]

\* loadFromSupabase without the "No products found in Supabase" throw.
loadFromSupabase_acceptsEmpty(l, pr, gs, cacheFresh) ==
  LET got == getProducts(l.cache, pr, cacheFresh)
      l1  == [l EXCEPT !.cache = got.cache]
  IN IF got.threw
     THEN Threw(l1, FALSE, got.queried)
     ELSE LET config == [ products |-> convertProducts(got.data),
                          globalSettings |-> convertGlobalSettings(gs) ]
              l2 == [l1 EXCEPT !.products = config.products,
                               !.globalSettings = config.globalSettings]
              l3 == IF CONFIG.analyticsEnabled
                    THEN trackEvent(l2, "page_loaded", NULL)
                    ELSE l2
          IN IF validateTargets(l2.products).threw
             THEN Threw(l2, FALSE, got.queried)
             ELSE Loaded(l3, "Supabase", <<config>>, FALSE, got.queried)

loadFromSupabase(l, pr, gs, cacheFresh) ==
  LET got == getProducts(l.cache, pr, cacheFresh)
      l1  == [l EXCEPT !.cache = got.cache]
  IN IF got.threw \/ Len(got.data) = 0
     THEN Threw(l1, FALSE, got.queried)
     ELSE LET config == [ products |-> convertProducts(got.data),
                          globalSettings |-> convertGlobalSettings(gs) ]
              l2 == [l1 EXCEPT !.products = config.products,
                               !.globalSettings = config.globalSettings]
              l3 == IF CONFIG.analyticsEnabled
                    THEN trackEvent(l2, "page_loaded", NULL)
                    ELSE l2
          IN IF validateTargets(l2.products).threw
             THEN Threw(l2, FALSE, got.queried)
             ELSE Loaded(l3, "Supabase", <<config>>, FALSE, got.queried)

\* ARConfigLoader.loadConfig, reached through loadFromJSON.  A document without
\* "products" is assigned before this.products.length throws: the fields are lost
\* (undefined in the code, the empty value here).
loadFromJSON(l, sr, queried) ==
  IF ~sr.ok THEN Threw(l, TRUE, queried)
  ELSE IF ~sr.hasProducts
  THEN Threw([l EXCEPT !.products = << >>, !.globalSettings = << >>], TRUE, queried)
  ELSE LET l1 == [l EXCEPT !.products = sr.products,
                           !.globalSettings = sr.globalSettings]
       IN IF validateTargets(l1.products).threw
          THEN Threw(l1, TRUE, queried)
          ELSE Loaded(l1, "products.json",
                      << [products |-> sr.products,
                          globalSettings |-> sr.globalSettings] >>,
                      TRUE, queried)

\* loadConfig whose catch block rethrows without trying products.json.
loadConfig_noFallback(l, pr, gs, sr, cacheFresh) ==
  IF useSupabase
  THEN [out |-> loadFromSupabase(l, pr, gs, cacheFresh), useSupabase |-> TRUE]
  ELSE [out |-> loadFromJSON(l, sr, FALSE), useSupabase |-> FALSE]

\* loadConfig whose catch block falls back without testing fallbackToJSON.
loadConfig_alwaysFallback(l, pr, gs, sr, cacheFresh) ==
  IF useSupabase
  THEN LET first == loadFromSupabase(l, pr, gs, cacheFresh)
       IN IF ~first.threw
          THEN [out |-> first, useSupabase |-> TRUE]
          ELSE [out |-> loadFromJSON(first.l, sr, first.queried), useSupabase |-> FALSE]
  ELSE [out |-> loadFromJSON(l, sr, FALSE), useSupabase |-> FALSE]

\* SupabaseConfigLoader.loadConfig: the call's outcome plus useSupabase afterwards.
loadConfig_retriesPrimary(l, pr, gs, sr, cacheFresh) ==
  IF CONFIG.supabaseEnabled /\ clientReady
  THEN LET first == loadFromSupabase(l, pr, gs, cacheFresh)
       IN IF ~first.threw
          THEN [out |-> first, useSupabase |-> TRUE]
          ELSE IF CONFIG.fallbackToJSON
               THEN [out |-> loadFromJSON(first.l, sr, first.queried), useSupabase |-> FALSE]
               ELSE [out |-> first, useSupabase |-> TRUE]
  ELSE [out |-> loadFromJSON(l, sr, FALSE), useSupabase |-> FALSE]

loadConfig(l, pr, gs, sr, cacheFresh) ==
  IF useSupabase
  THEN LET first == loadFromSupabase(l, pr, gs, cacheFresh)
       IN IF ~first.threw
          THEN [out |-> first, useSupabase |-> TRUE]
          ELSE IF CONFIG.fallbackToJSON
               THEN [out |-> loadFromJSON(first.l, sr, first.queried), useSupabase |-> FALSE]
               ELSE [out |-> first, useSupabase |-> TRUE]
  ELSE [out |-> loadFromJSON(l, sr, FALSE), useSupabase |-> FALSE]

\* clearCache(): this.cache afterwards.
clearCache == << >>

\* reload() without the clearCache() call.
reload_keepsCache(l, pr, gs, sr, cacheFresh) ==
  loadConfig(l, pr, gs, sr, cacheFresh)

\* reload() up to generateScene(): the cache is cleared, then loadConfig() runs.
reload(l, pr, gs, sr, cacheFresh) ==
  loadConfig([l EXCEPT !.cache = clearCache], pr, gs, sr, cacheFresh)

(***************************************************************************)
(* Scene generation.                                                       *)
(***************************************************************************)
\* One entity per product; its a-gltf-model gets no "visible" attribute, so it is
\* shown whenever the entity is.  ml: the app.js listeners are attached.
createTargetEntity(product) ==
  [ product |-> product, targetIndex |-> product.targetIndex,
    modelVisible |-> TRUE, ml |-> FALSE ]

generateScene(prods) == [ i \in 1..Len(prods) |-> createTargetEntity(prods[i]) ]

\* generateScene() as it would be if it cleared a-assets first (it does not).
createAssets_replacing(asts, prods) == [ i \in 1..Len(prods) |-> prods[i].id ]

\* generateScene(): one a-asset-item per product, with the product's id, appended to
\* a-assets; the existing ones are left in place.
createAssets(asts, prods) == asts \o [ i \in 1..Len(prods) |-> prods[i].id ]

setupMLEventListeners(targets) ==
  [ i \in 1..Len(targets) |-> [targets[i] EXCEPT !.ml = TRUE] ]

TargetIndices == { entities[i].targetIndex : i \in 1..Len(entities) }

(***************************************************************************)
(* Product found / lost handlers of the loader.                            *)
(***************************************************************************)
WindowEvent(type, productId, targetIndex) ==
  [type |-> type, productId |-> productId, targetIndex |-> targetIndex]

ARConfigLoader_onProductFound(s, product) ==
  LET s1 == IF product.interactions.onFound.showUI
            THEN [s EXCEPT !.productUI = product.id]
            ELSE s
  IN [s1 EXCEPT !.windowEvents =
        Append(@, WindowEvent("ar-product-found", product.id, product.targetIndex))]

ARConfigLoader_onProductLost(s, product) ==
  LET s1 == IF product.interactions.onLost.hideUI
            THEN [s EXCEPT !.productUI = NULL]
            ELSE s
  IN [s1 EXCEPT !.windowEvents =
        Append(@, WindowEvent("ar-product-lost", product.id, product.targetIndex))]

onProductFound(s, product) ==
  LET s1 == ARConfigLoader_onProductFound(s, product)
  IN IF useSupabase /\ CONFIG.analyticsEnabled
     THEN trackEvent(s1, "product_found", product.id)
     ELSE s1

onProductLost(s, product) ==
  LET s1 == ARConfigLoader_onProductLost(s, product)
  IN IF useSupabase /\ CONFIG.analyticsEnabled
     THEN trackEvent(s1, "product_lost", product.id)
     ELSE s1

\* The listeners attachEventListeners puts on a product's entity.
loaderTargetFound(s, product) ==
  onProductFound([s EXCEPT !.loaderCurrentProduct = <<product>>], product)

loaderTargetLost(s, product) ==
  [onProductLost(s, product) EXCEPT !.loaderCurrentProduct = << >>]

(***************************************************************************)
(* The listeners of app.js (setupMLEventListeners); index is the entity's  *)
(* position among the [mindar-image-target] elements, from 0.              *)
(***************************************************************************)
TimerDelay == 500

\* appTargetFound without the mlReady test.
appTargetFound_noReadyTest(s, index) ==
  IF ~s.detectionInProgress
  THEN [s EXCEPT !.detectionInProgress = TRUE, !.timers = Append(@, index),
                 !.delays = Append(@, TimerDelay)]
  ELSE s

appTargetFound(s, index) ==
  IF mlReady /\ ~s.detectionInProgress
  THEN [s EXCEPT !.detectionInProgress = TRUE, !.timers = Append(@, index),
                 !.delays = Append(@, TimerDelay)]
  ELSE s

appTargetLost(s, index) ==
  LET s1 == [s EXCEPT !.detectionInProgress = FALSE]
      s2 == IF s1.currentProduct # << >>
            THEN onProductLost(s1, s1.currentProduct[1])
            ELSE s1
  IN [s2 EXCEPT !.currentProduct = << >>, !.identifiedAt = << >>,
                !.windowEvents = Append(@, WindowEvent("product-lost", NULL, index))]

\* appClassified that forgets the identified product when nothing is recognised.
appClassified_clearsOnNoMatch(s, result, index) ==
  LET found == SelectSeq(products, LAMBDA p : result # << >> /\ p.id = result[1].productId)
      s1 == IF result # << >> /\ result[1].confidence >= confidenceThreshold
            THEN IF found # << >>
                 THEN onProductFound(
                        [s EXCEPT !.currentProduct = <<found[1]>>,
                                  !.identifiedAt = << entities[index + 1].targetIndex >>,
                                  !.windowEvents = Append(@,
                                     WindowEvent("product-identified", found[1].id, index))],
                        found[1])
                 ELSE s
            ELSE [s EXCEPT !.currentProduct = << >>, !.identifiedAt = << >>]
  IN [s1 EXCEPT !.detectionInProgress = FALSE]

\* The continuation of the timer callback once classifyProduct has returned result.
appClassified(s, result, index) ==
  LET found == SelectSeq(products, LAMBDA p : result # << >> /\ p.id = result[1].productId)
      s1 == IF result # << >> /\ result[1].confidence >= confidenceThreshold
            THEN IF found # << >>
                 THEN onProductFound(
                        [s EXCEPT !.currentProduct = <<found[1]>>,
                                  !.identifiedAt = << entities[index + 1].targetIndex >>,
                                  !.windowEvents = Append(@,
                                     WindowEvent("product-identified", found[1].id, index))],
                        found[1])
                 ELSE s
            ELSE s
  IN [s1 EXCEPT !.detectionInProgress = FALSE]

\* All listeners of entity i, in the order they were attached.
foundListeners(s, i) ==
  LET s1 == loaderTargetFound(s, entities[i].product)
  IN IF entities[i].ml THEN appTargetFound(s1, i - 1) ELSE s1

lostListeners(s, i) ==
  LET s1 == loaderTargetLost(s, entities[i].product)
  IN IF entities[i].ml THEN appTargetLost(s1, i - 1) ELSE s1

\* The tracking engine emits the event on every entity registered for the target.
RECURSIVE dispatchFound(_, _, _)
dispatchFound(s, i, t) ==
  IF i > Len(entities) THEN s
  ELSE dispatchFound(IF entities[i].targetIndex = t THEN foundListeners(s, i) ELSE s,
                     i + 1, t)

RECURSIVE dispatchLost(_, _, _)
dispatchLost(s, i, t) ==
  IF i > Len(entities) THEN s
  ELSE dispatchLost(IF entities[i].targetIndex = t THEN lostListeners(s, i) ELSE s,
                    i + 1, t)

(***************************************************************************)
(* MLClassifier.                                                           *)
(***************************************************************************)
DefaultConfidenceThreshold == 70

throttleInterval == 500

labelMap == [ label \in {"Cool Mint", "Spearmint"} |->
                IF label = "Cool Mint" THEN "product-2" ELSE "product-1" ]

Prediction(className, probability) ==
  [className |-> className, probability |-> probability]

\* What model.predict can resolve with (class probabilities) or reject.
PredictOutcomes ==
  { [threw |-> TRUE,  predictions |-> << >>],
    [threw |-> FALSE, predictions |->
       << Prediction("Cool Mint", 6), Prediction("Spearmint", 94) >>],
    [threw |-> FALSE, predictions |->
       << Prediction("Cool Mint", 69), Prediction("Spearmint", 31) >>],
    [threw |-> FALSE, predictions |->
       << Prediction("Cool Mint", 30), Prediction("Spearmint", 70) >>],
    [threw |-> FALSE, predictions |->
       << Prediction("Cool Mint", 40), Prediction("Spearmint", 60) >>],
    [threw |-> FALSE, predictions |->
       << Prediction("Cool Mint", 10), Prediction("Spearmint", 5),
          Prediction("Background", 85) >>] }

\* The arguments setConfidenceThreshold is called with (a percentage; valid in 0..100).
Thresholds == { -10, 60, 70, 110 }

\* predictions.sort((a, b) => b.probability - a.probability): stable, descending.
RECURSIVE insertDesc(_, _)
insertDesc(sorted, x) ==
  IF sorted = << >> THEN <<x>>
  ELSE IF Head(sorted).probability >= x.probability
       THEN <<Head(sorted)>> \o insertDesc(Tail(sorted), x)
       ELSE <<x>> \o sorted

RECURSIVE sortDesc(_)
sortDesc(predictions) ==
  IF predictions = << >> THEN << >>
  ELSE insertDesc(sortDesc(SubSeq(predictions, 1, Len(predictions) - 1)),
                  predictions[Len(predictions)])

\* classifyProduct_resolved with the threshold test written confidence <= threshold.
classifyProduct_resolved_countsThrow(outcome) ==
  IF outcome.threw \/ outcome.predictions = << >>
  THEN [result |-> << >>,
        stats |-> [stats EXCEPT !.totalClassifications = @ + 1, !.failedMatches = @ + 1]]
  ELSE LET topPrediction == sortDesc(outcome.predictions)[1]
           confidence == topPrediction.probability
           label == topPrediction.className
           counted == [stats EXCEPT !.totalClassifications = @ + 1]
       IN IF confidence < confidenceThreshold
          THEN [result |-> << >>, stats |-> [counted EXCEPT !.failedMatches = @ + 1]]
          ELSE IF label \notin DOMAIN labelMap
          THEN [result |-> << >>, stats |-> [counted EXCEPT !.failedMatches = @ + 1]]
          ELSE [result |-> << [productId |-> labelMap[label], confidence |-> confidence,
                               label |-> label] >>,
                stats |-> [counted EXCEPT !.successfulMatches = @ + 1]]

classifyProduct_resolved_uncountedFailure(outcome) ==
  IF outcome.threw \/ outcome.predictions = << >>
  THEN [result |-> << >>, stats |-> stats]
  ELSE LET topPrediction == sortDesc(outcome.predictions)[1]
           confidence == topPrediction.probability
           label == topPrediction.className
           counted == [stats EXCEPT !.totalClassifications = @ + 1]
       IN IF confidence < confidenceThreshold
          THEN [result |-> << >>, stats |-> counted]
          ELSE IF label \notin DOMAIN labelMap
          THEN [result |-> << >>, stats |-> [counted EXCEPT !.failedMatches = @ + 1]]
          ELSE [result |-> << [productId |-> labelMap[label], confidence |-> confidence,
                               label |-> label] >>,
                stats |-> [counted EXCEPT !.successfulMatches = @ + 1]]

classifyProduct_resolved_strict(outcome) ==
  IF outcome.threw \/ outcome.predictions = << >>
  THEN [result |-> << >>, stats |-> stats]
  ELSE LET topPrediction == sortDesc(outcome.predictions)[1]
           confidence == topPrediction.probability
           label == topPrediction.className
           counted == [stats EXCEPT !.totalClassifications = @ + 1]
       IN IF confidence <= confidenceThreshold
          THEN [result |-> << >>, stats |-> [counted EXCEPT !.failedMatches = @ + 1]]
          ELSE IF label \notin DOMAIN labelMap
          THEN [result |-> << >>, stats |-> [counted EXCEPT !.failedMatches = @ + 1]]
          ELSE [result |-> << [productId |-> labelMap[label], confidence |-> confidence,
                               label |-> label] >>,
                stats |-> [counted EXCEPT !.successfulMatches = @ + 1]]

\* The part of classifyProduct after model.predict has settled: the value returned
\* and the statistics afterwards.
classifyProduct_resolved(outcome) ==
  IF outcome.threw \/ outcome.predictions = << >>
  THEN [result |-> << >>, stats |-> stats]
  ELSE LET topPrediction == sortDesc(outcome.predictions)[1]
           confidence == topPrediction.probability
           label == topPrediction.className
           counted == [stats EXCEPT !.totalClassifications = @ + 1]
       IN IF confidence < confidenceThreshold
          THEN [result |-> << >>, stats |-> [counted EXCEPT !.failedMatches = @ + 1]]
          ELSE IF label \notin DOMAIN labelMap
          THEN [result |-> << >>, stats |-> [counted EXCEPT !.failedMatches = @ + 1]]
          ELSE [result |-> << [productId |-> labelMap[label], confidence |-> confidence,
                               label |-> label] >>,
                stats |-> [counted EXCEPT !.successfulMatches = @ + 1]]

\* classifyProduct_start without the isProcessing test.
classifyProduct_start_noBusyTest(videoReady) ==
  IF ~initialized THEN "reject"
  ELSE IF ~videoReady THEN "reject"
  ELSE "predict"

\* The part of classifyProduct before model.predict: "reject" (return null) or "predict".
classifyProduct_start(videoReady) ==
  IF ~initialized THEN "reject"
  ELSE IF ~videoReady THEN "reject"
  ELSE IF isProcessing THEN "reject"
  ELSE "predict"

ZeroStats == [totalClassifications |-> 0, successfulMatches |-> 0, failedMatches |-> 0]

\* MLClassifier.initialize(products): this.initialized afterwards and whether the
\* call throws (a library is missing or tmImage.load rejects).
initialize(prods, librariesLoaded, modelLoads) ==
  IF Len(prods) = 0 THEN [initialized |-> FALSE, threw |-> FALSE]
  ELSE IF ~librariesLoaded \/ ~modelLoads THEN [initialized |-> FALSE, threw |-> TRUE]
  ELSE [initialized |-> TRUE, threw |-> FALSE]

\* isReady(): the model is set exactly when initialized is.
isReady(init) == init

\* initializeML of app.js: mlReady afterwards.
initializeML(r) == IF r.threw THEN FALSE ELSE isReady(r.initialized)

(***************************************************************************)
(* Actions.                                                                *)
(***************************************************************************)
NoClassification == << >>

NoOutcome == [threw |-> FALSE, predictions |-> << >>]

Classification(call, index, outcome, result) ==
  << [call |-> call, index |-> index, outcome |-> outcome, result |-> result] >>

\* The fields the listeners mutate, at the start of a task.
Listening ==
  [ loaderCurrentProduct |-> loaderCurrentProduct, productUI |-> productUI,
    windowEvents |-> << >>, eventQueue |-> eventQueue, inserted |-> << >>,
    currentProduct |-> currentProduct, identifiedAt |-> identifiedAt,
    detectionInProgress |-> detectionInProgress,
    timers |-> timers, delays |-> delays ]

Listened(s) ==
  /\ Len(s.timers) <= MaxTimers
  /\ Len(s.eventQueue) <= MaxEventQueue
  /\ loaderCurrentProduct' = s.loaderCurrentProduct
  /\ productUI' = s.productUI
  /\ windowEvents' = s.windowEvents
  /\ eventQueue' = s.eventQueue
  /\ inserted' = s.inserted
  /\ Pushed(s.eventQueue)
  /\ UNCHANGED sending
  /\ lastTelemetry' = NoTelemetry
  /\ currentProduct' = s.currentProduct
  /\ identifiedAt' = s.identifiedAt
  /\ detectionInProgress' = s.detectionInProgress
  /\ timers' = s.timers
  /\ delays' = s.delays

\* The tracking engine reports target t found.
TargetFound(t) ==
  /\ Listened(dispatchFound(Listening, 1, t))
  /\ tracked' = tracked \cup {t}
  /\ lastClassification' = NoClassification
  /\ UNCHANGED << loaderVars, mlReady, classifierVars, sinceAttempt >>

\* The tracking engine reports target t lost.
TargetLost(t) ==
  /\ Listened(dispatchLost(Listening, 1, t))
  /\ tracked' = tracked \ {t}
  /\ lastClassification' = NoClassification
  /\ UNCHANGED << loaderVars, mlReady, classifierVars, sinceAttempt >>

\* The 500 ms timer of a targetFound listener fires.
TimerFire(videoReady) ==
  /\ timers # << >>
  /\ LET index == Head(timers)
         s == [Listening EXCEPT !.timers = Tail(timers), !.delays = Tail(delays)]
     IN IF ~videoReady
        THEN /\ Listened([s EXCEPT !.detectionInProgress = FALSE])
             /\ lastClassification' = NoClassification
             /\ UNCHANGED << isProcessing, predicting, sinceAttempt >>
        ELSE IF classifyProduct_start(videoReady) = "reject"
        THEN /\ Listened(appClassified(s, << >>, index))
             /\ lastClassification' = Classification("rejected", index, NoOutcome, << >>)
             /\ UNCHANGED << isProcessing, predicting, sinceAttempt >>
        ELSE /\ Listened(s)
             /\ lastClassification' = Classification("predict", index, NoOutcome, << >>)
             /\ isProcessing' = TRUE
             /\ predicting' = Append(predicting, index)
             /\ sinceAttempt' = 0
  /\ UNCHANGED << loaderVars, tracked, mlReady, initialized, confidenceThreshold, stats >>

\* model.predict of the k-th call in progress settles; classifyProduct returns and the
\* timer callback that awaited it continues.
PredictSettles(k, outcome) ==
  /\ k \in 1..Len(predicting)
  /\ stats.totalClassifications < MaxClassifications
  /\ LET c == classifyProduct_resolved(outcome)
     IN /\ Listened(appClassified(Listening, c.result, predicting[k]))
        /\ stats' = c.stats
        /\ lastClassification' = Classification("returned", predicting[k], outcome, c.result)
  /\ isProcessing' = FALSE
  /\ predicting' = SubSeq(predicting, 1, k - 1) \o SubSeq(predicting, k + 1, Len(predicting))
  /\ UNCHANGED << loaderVars, tracked, mlReady, initialized, confidenceThreshold,
                  sinceAttempt >>

setConfidenceThreshold(threshold) ==
  IF threshold < 0 \/ threshold > 100 THEN confidenceThreshold ELSE threshold

SetConfidenceThreshold(threshold) ==
  /\ initialized
  /\ confidenceThreshold' = setConfidenceThreshold(threshold)
  /\ Listened(Listening)
  /\ lastClassification' = NoClassification
  /\ UNCHANGED << loaderVars, tracked, mlReady, initialized, isProcessing, stats,
                  predicting, sinceAttempt >>

ResetStats ==
  /\ initialized
  /\ stats' = ZeroStats
  /\ Listened(Listening)
  /\ lastClassification' = NoClassification
  /\ UNCHANGED << loaderVars, tracked, mlReady, initialized, isProcessing,
                  confidenceThreshold, predicting, sinceAttempt >>

\* The entry of the product cache a call finds valid (isCacheValid), if there is one.
Memoized(cacheFresh) == IF cacheFresh THEN cache ELSE << >>

\* loadConfig() runs to completion against the responses of the two backends.
LoadConfig(pr, gs, sr, cacheFresh) ==
  LET l == [ products |-> products, globalSettings |-> globalSettings, cache |-> cache,
             eventQueue |-> eventQueue, inserted |-> << >> ]
      r == loadConfig(l, pr, gs, sr, cacheFresh)
  IN /\ Len(r.out.l.eventQueue) <= MaxEventQueue
     /\ products' = r.out.l.products
     /\ globalSettings' = r.out.l.globalSettings
     /\ cache' = r.out.l.cache
     /\ eventQueue' = r.out.l.eventQueue
     /\ inserted' = r.out.l.inserted
     /\ Pushed(r.out.l.eventQueue)
     /\ lastTelemetry' = NoTelemetry
     /\ useSupabase' = r.useSupabase
     /\ loadResult' = [ status |-> IF r.out.threw THEN "rejected" ELSE "resolved",
                        source |-> r.out.source, config |-> r.out.config,
                        readJSON |-> r.out.readJSON, queried |-> r.out.queried,
                        validation |-> r.out.validation,
                        usedSupabase |-> useSupabase, primary |-> pr, secondary |-> sr,
                        call |-> "loadConfig", memoized |-> Memoized(cacheFresh) ]
     /\ UNCHANGED << startup, CONFIG, clientReady, entities, assets, tracked, loaderCurrentProduct,
                     productUI, windowEvents, mlReady, currentProduct, identifiedAt,
                     detectionInProgress, timers, delays, sinceAttempt, classifierVars,
                     lastClassification, sending, subscription >>

(***************************************************************************)
(* Initial states.                                                         *)
(***************************************************************************)
NoLoad ==
  [ status |-> "none", source |-> "none", config |-> << >>, readJSON |-> FALSE,
    queried |-> FALSE, usedSupabase |-> FALSE, call |-> "none", memoized |-> << >>,
    validation |-> "none",
    primary |-> [error |-> FALSE, data |-> << >>],
    secondary |-> [ok |-> FALSE, hasProducts |-> FALSE, products |-> << >>,
                   globalSettings |-> << >>] ]

\* new SupabaseConfigLoader(), new MLClassifier(), the globals of app.js.
Constructed ==
  /\ useSupabase = (CONFIG.supabaseEnabled /\ clientReady)
  /\ cache = << >>
  /\ loadResult = NoLoad
  /\ subscription = FALSE
  /\ requeued = << >>
  /\ sending = << >>
  /\ lastTelemetry = NoTelemetry
  /\ tracked = {}
  /\ loaderCurrentProduct = << >>
  /\ productUI = NULL
  /\ windowEvents = << >>
  /\ currentProduct = << >>
  /\ identifiedAt = << >>
  /\ detectionInProgress = FALSE
  /\ timers = << >>
  /\ delays = << >>
  /\ sinceAttempt = throttleInterval
  /\ isProcessing = FALSE
  /\ confidenceThreshold = DefaultConfidenceThreshold
  /\ stats = ZeroStats
  /\ predicting = << >>
  /\ lastClassification = NoClassification

\* app.js before any of its start-up events.
NotStarted ==
  [ sceneLoaded |-> FALSE, configReady |-> FALSE, cameraReady |-> FALSE,
    camera |-> "asking", timeoutPending |-> FALSE, startTimers |-> 0,
    setupTimers |-> 0, mlInits |-> 0, started |-> FALSE, lastStart |-> << >>,
    scheduled |-> 0, missing |-> FALSE ]

\* app.js once MindAR runs and its timeouts have fired.
StartedUp ==
  [ NotStarted EXCEPT !.sceneLoaded = TRUE, !.configReady = TRUE, !.cameraReady = TRUE,
                      !.camera = "stopped", !.started = TRUE, !.scheduled = 1 ]

\* The page before loadConfig() is called.
InitLoad ==
  /\ startup = NotStarted
  /\ CONFIG \in [ supabaseEnabled : BOOLEAN, analyticsEnabled : BOOLEAN,
                  fallbackToJSON : BOOLEAN, batchEvents : BOOLEAN,
                  cacheConfig : BOOLEAN, sessionId : SessionIds ]
  /\ clientReady \in BOOLEAN
  /\ Constructed
  /\ products = << >>
  /\ globalSettings = << >>
  /\ eventQueue = << >>
  /\ inserted = << >>
  /\ entities = << >>
  /\ assets = << >>
  /\ mlReady = FALSE
  /\ initialized = FALSE

NextLoad ==
  \E pr \in PrimaryResponses, gs \in SettingsResponses, sr \in SecondaryResponses,
     cacheFresh \in BOOLEAN :
    LoadConfig(pr, gs, sr, cacheFresh)

SpecLoad == InitLoad /\ [][NextLoad]_vars

\* generateScene(): the entities of the previous scene are removed, one entity is
\* created per product.  The new entities carry the loader's listeners only.
GenerateScene ==
  /\ Len(assets) + Len(products) <= MaxAssets
  /\ entities' = generateScene(products)
  /\ assets' = createAssets(assets, products)
  /\ inserted' = << >>
  /\ lastTelemetry' = NoTelemetry
  /\ UNCHANGED << startup, CONFIG, clientReady, useSupabase, products, globalSettings, cache,
                  loadResult, subscription, tracked, loaderCurrentProduct, productUI, windowEvents,
                  eventQueue, mlReady, currentProduct, identifiedAt, detectionInProgress, timers,
                  delays, sinceAttempt, classifierVars, lastClassification, requeued,
                  sending >>

\* The page that loads its catalog and (re)generates its scene, analytics off.
InitScene ==
  /\ InitLoad
  /\ ~CONFIG.analyticsEnabled
  /\ ~CONFIG.batchEvents

NextScene ==
  \/ NextLoad
  \/ GenerateScene

SpecScene == InitScene /\ [][NextScene]_vars

(***************************************************************************)
(* The analytics client on its own: events tracked by the page, the batch  *)
(* processor's interval, the transport's answers, and cleanup().           *)
(***************************************************************************)
telemetryFrame ==
  UNCHANGED << startup, CONFIG, clientReady, useSupabase, products, globalSettings, cache,
               loadResult, entities, assets, tracked, loaderCurrentProduct, productUI,
               windowEvents, mlReady, currentProduct, identifiedAt, detectionInProgress, timers,
               delays, sinceAttempt, classifierVars, lastClassification >>

RECURSIVE InFlight(_)
InFlight(batches) ==
  IF batches = << >> THEN 0
  ELSE Len(Head(batches).events) + InFlight(Tail(batches))

\* supabaseClient.trackEvent(eventType, productId) called by the page.
TrackEvent(eventType, productId) ==
  LET s == trackEvent([eventQueue |-> eventQueue, inserted |-> << >>],
                      eventType, productId)
  IN /\ Len(s.eventQueue) + InFlight(sending) <= MaxEventQueue
     /\ eventQueue' = s.eventQueue
     /\ inserted' = s.inserted
     /\ Pushed(s.eventQueue)
     /\ UNCHANGED << sending, subscription >>
     /\ lastTelemetry' = Telemetry("trackEvent", eventType, productId, "none", "resolved")
     /\ telemetryFrame

StartBatch(call, flushing) ==
  LET r == sendEventBatch_start(flushing)
  IN /\ eventQueue' = r.eventQueue
     /\ requeued' = r.requeued
     /\ sending' = r.sending
     /\ inserted' = r.inserted
     /\ lastTelemetry' = Telemetry(call, NULL, NULL, "none",
                                   IF r.settled THEN "resolved" ELSE "pending")

\* The setInterval callback of startEventQueueProcessor.
BatchTick ==
  /\ processorStarted
  /\ StartBatch("tick", FALSE)
  /\ UNCHANGED subscription
  /\ telemetryFrame

\* The insert of the k-th bulk insert in progress settles; sendEventBatch finishes.
BatchSettles(k, outcome) ==
  /\ k \in 1..Len(sending)
  /\ outcome = "error" =>
       \A i \in 1..Len(sending[k].requeued) : sending[k].requeued[i] < MaxRequeues
  /\ LET r == sendEventBatch_settled(sending[k], outcome)
     IN /\ eventQueue' = r.eventQueue
        /\ requeued' = r.requeued
        /\ lastTelemetry' = Telemetry(IF sending[k].flushing THEN "flush" ELSE "batch",
                                      NULL, NULL, outcome,
                                      IF r.threw THEN "rejected" ELSE "resolved")
  /\ sending' = SubSeq(sending, 1, k - 1) \o SubSeq(sending, k + 1, Len(sending))
  /\ inserted' = << >>
  /\ UNCHANGED subscription
  /\ telemetryFrame

\* disableRealTimeUpdates(): the subscription, if any, is removed.
disableRealTimeUpdates == FALSE

\* SupabaseConfigLoader.cleanup() (beforeunload), up to its await of flushEventQueue.
Cleanup ==
  /\ subscription' = disableRealTimeUpdates
  /\ IF useSupabase /\ CONFIG.analyticsEnabled
     THEN StartBatch("cleanup", TRUE)
     ELSE /\ UNCHANGED << eventQueue, requeued, sending >>
          /\ inserted' = << >>
          /\ lastTelemetry' = Telemetry("cleanup", NULL, NULL, "none", "resolved")
  /\ telemetryFrame

TrackedTypes == { "product_found", "button_clicked", "custom_event" }

InitTelemetry ==
  /\ InitLoad
  /\ ~CONFIG.fallbackToJSON
  /\ ~CONFIG.cacheConfig

NextTelemetry ==
  \/ \E eventType \in TrackedTypes : TrackEvent(eventType, "product-1")
  \/ BatchTick
  \/ \E k \in 1..Len(sending), outcome \in TransportOutcomes : BatchSettles(k, outcome)
  \/ Cleanup

SpecTelemetry == InitTelemetry /\ [][NextTelemetry]_vars

\* The page once the three-product catalog is loaded, the scene generated, MindAR
\* started, the classifier initialised (or not) and the app.js listeners attached.
Init ==
  /\ CONFIG \in [ supabaseEnabled : BOOLEAN, analyticsEnabled : BOOLEAN,
                  fallbackToJSON : {FALSE}, batchEvents : {FALSE},
                  cacheConfig : {FALSE}, sessionId : SessionIds ]
  /\ clientReady = TRUE
  /\ Constructed
  /\ startup = StartedUp
  /\ LET l == [ products |-> << >>, globalSettings |-> << >>, cache |-> << >>,
                eventQueue |-> << >>, inserted |-> << >> ]
         r == loadConfig(l, [error |-> FALSE, data |-> Rows3], << >>,
                         [ok |-> TRUE, hasProducts |-> TRUE, products |-> DocProducts3,
                          globalSettings |-> <<3>>], FALSE)
     IN /\ products = r.out.l.products
        /\ globalSettings = r.out.l.globalSettings
        /\ eventQueue = r.out.l.eventQueue
        /\ inserted = r.out.l.inserted
  /\ entities = setupMLEventListeners(generateScene(products))
  /\ assets = createAssets(<< >>, products)
  /\ \E librariesLoaded \in BOOLEAN, modelLoads \in BOOLEAN :
       LET r == initialize(products, librariesLoaded, modelLoads)
       IN /\ initialized = r.initialized
          /\ mlReady = initializeML(r)

\* What happens to the page by itself: the tracking engine, timers, the model.
Next ==
  \/ \E t \in TargetIndices : TargetFound(t)
  \/ \E t \in TargetIndices : TargetLost(t)
  \/ \E videoReady \in BOOLEAN : TimerFire(videoReady)
  \/ \E k \in 1..Len(predicting), outcome \in PredictOutcomes : PredictSettles(k, outcome)

Spec == Init /\ [][Next]_vars

\* The page with a ready classifier whose settings are changed while it runs
\* (setConfidenceThreshold and resetStats are not called by app.js itself).
InitClassifier ==
  /\ Init
  /\ mlReady
  /\ ~CONFIG.supabaseEnabled
  /\ ~CONFIG.analyticsEnabled

NextClassifier ==
  \/ Next
  \/ \E threshold \in Thresholds : SetConfidenceThreshold(threshold)
  \/ ResetStats

SpecClassifier == InitClassifier /\ [][NextClassifier]_vars

(***************************************************************************)
(* The page with a clock.  Spec lets a pending timer fire at any moment;   *)
(* here a timer fires when its delay has elapsed, and time does not pass   *)
(* over a timer that is due.                                               *)
(***************************************************************************)
Elapse(ms) == IF ms > TickMs THEN ms - TickMs ELSE 0

Tick ==
  /\ \A i \in 1..Len(delays) : delays[i] > 0
  /\ delays' = [ i \in 1..Len(delays) |-> Elapse(delays[i]) ]
  /\ sinceAttempt' = IF sinceAttempt + TickMs > throttleInterval
                     THEN throttleInterval
                     ELSE sinceAttempt + TickMs
  /\ windowEvents' = << >>
  /\ inserted' = << >>
  /\ lastClassification' = NoClassification
  /\ lastTelemetry' = NoTelemetry
  /\ UNCHANGED << loaderVars, tracked, loaderCurrentProduct, productUI, eventQueue,
                  requeued, sending, mlReady, currentProduct, identifiedAt, detectionInProgress,
                  timers, classifierVars >>

TimerDue(videoReady) ==
  /\ delays # << >>
  /\ Head(delays) = 0
  /\ TimerFire(videoReady)

InitThrottle == InitClassifier

NextThrottle ==
  \/ \E t \in TargetIndices : TargetFound(t)
  \/ \E t \in TargetIndices : TargetLost(t)
  \/ \E videoReady \in BOOLEAN : TimerDue(videoReady)
  \/ \E k \in 1..Len(predicting), outcome \in PredictOutcomes : PredictSettles(k, outcome)
  \/ Tick

SpecThrottle == InitThrottle /\ [][NextThrottle]_vars

(***************************************************************************)
(* The page under the scheduling of the event loop: a pending timer fires  *)
(* and a pending model.predict settles (weak fairness).  The camera and    *)
(* the model are cooperative: a timer that keeps being scheduled finds the *)
(* video ready, and a prediction that keeps being requested recognises the *)
(* product (strong fairness).  The tracking engine owes nothing.           *)
(***************************************************************************)
Recognised ==
  [threw |-> FALSE, predictions |->
     << Prediction("Cool Mint", 6), Prediction("Spearmint", 94) >>]

FairLive ==
  /\ WF_vars(\E videoReady \in BOOLEAN : TimerFire(videoReady))
  /\ WF_vars(\E k \in 1..Len(predicting), outcome \in PredictOutcomes :
               PredictSettles(k, outcome))
  /\ SF_vars(TimerFire(TRUE))
  /\ SF_vars(\E k \in 1..Len(predicting) : PredictSettles(k, Recognised))

SpecLive == InitClassifier /\ [][Next]_vars /\ FairLive

(***************************************************************************)
(* The page from its first load to its teardown, analytics on: loads and   *)
(* reloads of the catalog, switchToJSON(), the batch processor, cleanup(). *)
(***************************************************************************)
\* loadConfig() called by the page (first load, or again later).
LoadPage(pr, sr) ==
  /\ Len(eventQueue) + InFlight(sending) < MaxEventQueue
  /\ LoadConfig(pr, << >>, sr, FALSE)

\* switchToJSON(): useSupabase is cleared, the catalog is loaded again (from
\* products.json now) and, unless that load throws, the scene is regenerated.
SwitchToJSON(sr) ==
  /\ useSupabase
  /\ LET l == [ products |-> products, globalSettings |-> globalSettings, cache |-> cache,
                eventQueue |-> eventQueue, inserted |-> << >> ]
         out == loadFromJSON(l, sr, FALSE)
     IN /\ useSupabase' = FALSE
        /\ products' = out.l.products
        /\ globalSettings' = out.l.globalSettings
        /\ cache' = out.l.cache
        /\ eventQueue' = out.l.eventQueue
        /\ inserted' = out.l.inserted
        /\ loadResult' = [ status |-> IF out.threw THEN "rejected" ELSE "resolved",
                           source |-> out.source, config |-> out.config,
                           readJSON |-> out.readJSON, queried |-> out.queried,
                           validation |-> out.validation,
                           usedSupabase |-> FALSE, primary |-> NoLoad.primary,
                           secondary |-> sr, call |-> "switchToJSON",
                           memoized |-> << >> ]
        /\ entities' = IF out.threw THEN entities ELSE generateScene(out.l.products)
        /\ assets' = IF out.threw THEN assets ELSE createAssets(assets, out.l.products)
        /\ Len(assets') <= MaxAssets
  /\ lastTelemetry' = NoTelemetry
  /\ UNCHANGED << startup, CONFIG, clientReady, tracked, loaderCurrentProduct, productUI,
                  windowEvents, mlReady, currentProduct, identifiedAt, detectionInProgress, timers,
                  delays, sinceAttempt, classifierVars, lastClassification, requeued,
                  sending, subscription >>

InitTeardown ==
  /\ InitLoad
  /\ CONFIG.supabaseEnabled
  /\ CONFIG.analyticsEnabled
  /\ ~CONFIG.cacheConfig
  /\ clientReady

NextTeardown ==
  \/ \E pr \in PrimaryResponses, sr \in SecondaryResponses : LoadPage(pr, sr)
  \/ \E sr \in SecondaryResponses : SwitchToJSON(sr)
  \/ BatchTick
  \/ \E k \in 1..Len(sending), outcome \in TransportOutcomes : BatchSettles(k, outcome)
  \/ Cleanup

SpecTeardown == InitTeardown /\ [][NextTeardown]_vars

(***************************************************************************)
(* The configuration provider over the life of the page: loads, manual     *)
(* reloads, scene generation, and real-time product updates.  Analytics    *)
(* are off.                                                                *)
(***************************************************************************)
\* reload(): the cache is cleared, the catalog is loaded again and, unless the load
\* throws, the scene is regenerated.
Reload(pr, gs, sr, cacheFresh) ==
  LET l == [ products |-> products, globalSettings |-> globalSettings, cache |-> cache,
             eventQueue |-> eventQueue, inserted |-> << >> ]
      r == reload(l, pr, gs, sr, cacheFresh)
  IN /\ Len(r.out.l.eventQueue) <= MaxEventQueue
     /\ products' = r.out.l.products
     /\ globalSettings' = r.out.l.globalSettings
     /\ cache' = r.out.l.cache
     /\ eventQueue' = r.out.l.eventQueue
     /\ inserted' = r.out.l.inserted
     /\ Pushed(r.out.l.eventQueue)
     /\ lastTelemetry' = NoTelemetry
     /\ useSupabase' = r.useSupabase
     /\ loadResult' = [ status |-> IF r.out.threw THEN "rejected" ELSE "resolved",
                        source |-> r.out.source, config |-> r.out.config,
                        readJSON |-> r.out.readJSON, queried |-> r.out.queried,
                        validation |-> r.out.validation,
                        usedSupabase |-> useSupabase, primary |-> pr, secondary |-> sr,
                        call |-> "reload", memoized |-> Memoized(cacheFresh) ]
     /\ entities' = IF r.out.threw THEN entities ELSE generateScene(r.out.l.products)
     /\ assets' = IF r.out.threw THEN assets ELSE createAssets(assets, r.out.l.products)
     /\ Len(assets') <= MaxAssets
     /\ UNCHANGED << startup, CONFIG, clientReady, tracked, loaderCurrentProduct,
                     productUI, windowEvents, mlReady, currentProduct, identifiedAt,
                     detectionInProgress, timers, delays, sinceAttempt, classifierVars,
                     lastClassification, sending, subscription >>

\* subscribeToProducts(callback): null without a client, a subscription otherwise.
subscribeToProducts == clientReady

\* enableRealTimeUpdates(): nothing unless Supabase is in use.
EnableRealTimeUpdates ==
  /\ useSupabase
  /\ subscription' = subscribeToProducts
  /\ inserted' = << >>
  /\ lastTelemetry' = NoTelemetry
  /\ UNCHANGED << startup, CONFIG, clientReady, useSupabase, products, globalSettings, cache,
                  loadResult, entities, assets, tracked, loaderCurrentProduct, productUI,
                  windowEvents, eventQueue, requeued, sending, mlReady, currentProduct, identifiedAt,
                  detectionInProgress, timers, delays, sinceAttempt, classifierVars,
                  lastClassification >>

\* A product-change notification arrives: the subscription's callback calls
\* loadFromSupabase() and then generateScene(); an error is caught and logged.
ProductChange(pr, gs, cacheFresh) ==
  /\ subscription
  /\ LET l == [ products |-> products, globalSettings |-> globalSettings, cache |-> cache,
                eventQueue |-> eventQueue, inserted |-> << >> ]
         out == loadFromSupabase(l, pr, gs, cacheFresh)
     IN /\ Len(out.l.eventQueue) <= MaxEventQueue
        /\ products' = out.l.products
        /\ globalSettings' = out.l.globalSettings
        /\ cache' = out.l.cache
        /\ eventQueue' = out.l.eventQueue
        /\ inserted' = out.l.inserted
        /\ Pushed(out.l.eventQueue)
        /\ loadResult' = [ status |-> IF out.threw THEN "rejected" ELSE "resolved",
                           source |-> out.source, config |-> out.config,
                           readJSON |-> out.readJSON, queried |-> out.queried,
                           validation |-> out.validation,
                           usedSupabase |-> useSupabase, primary |-> pr,
                           secondary |-> NoLoad.secondary, call |-> "productChange",
                           memoized |-> Memoized(cacheFresh) ]
        /\ entities' = IF out.threw THEN entities ELSE generateScene(out.l.products)
        /\ assets' = IF out.threw THEN assets ELSE createAssets(assets, out.l.products)
        /\ Len(assets') <= MaxAssets
  /\ lastTelemetry' = NoTelemetry
  /\ UNCHANGED << startup, CONFIG, clientReady, useSupabase, tracked, loaderCurrentProduct,
                  productUI, windowEvents, mlReady, currentProduct, identifiedAt,
                  detectionInProgress, timers, delays, sinceAttempt, classifierVars,
                  lastClassification, sending, subscription >>

\* Supabase is enabled and its client is ready; falling back and caching are
\* either on or off.
InitProvider ==
  /\ InitScene
  /\ CONFIG.supabaseEnabled
  /\ clientReady

\* products.json is unreachable, or it is the three-product document.
ProviderSecondary ==
  { sr \in SecondaryResponses : ~sr.ok \/ sr.products = DocProducts3 }

NextProvider ==
  \/ \E pr \in PrimaryResponses, sr \in ProviderSecondary, cacheFresh \in BOOLEAN :
       LoadConfig(pr, << >>, sr, cacheFresh)
  \/ GenerateScene
  \/ \E pr \in PrimaryResponses, sr \in ProviderSecondary, cacheFresh \in BOOLEAN :
       Reload(pr, << >>, sr, cacheFresh)
  \/ EnableRealTimeUpdates
  \/ \E pr \in PrimaryResponses, cacheFresh \in BOOLEAN :
       ProductChange(pr, << >>, cacheFresh)

SpecProvider == InitProvider /\ [][NextProvider]_vars

(***************************************************************************)
(* Catalogs: what loadConfig() makes of the data each backend can hold,    *)
(* migrated documents and hand-edited ones included.  Analytics and the    *)
(* cache are off.                                                          *)
(***************************************************************************)
\* The documents migrated to Supabase by the migration script.
MigratedDocuments == { DocProducts2, DocProducts3 }

CatalogPrimary ==
  PrimaryResponses \cup
    { [error |-> FALSE, data |-> selectProducts(Migrated(doc))] : doc \in MigratedDocuments }

CatalogSecondary ==
  SecondaryResponses \cup
    { [ok |-> TRUE, hasProducts |-> TRUE, products |-> DocProductsLoose,
       globalSettings |-> <<2>>] }

InitCatalog ==
  /\ InitScene
  /\ ~CONFIG.cacheConfig
  /\ clientReady

NextCatalog ==
  \E pr \in CatalogPrimary, sr \in CatalogSecondary : LoadConfig(pr, << >>, sr, FALSE)

SpecCatalog == InitCatalog /\ [][NextCatalog]_vars

(***************************************************************************)
(* Start-up of app.js: the scene's 'loaded' event, the 'ar-config-ready'   *)
(* event, the camera request with its poll and its ten-second timeout,     *)
(* tryStartAR() and the timeouts it schedules.                             *)
(***************************************************************************)
Ready(s) == [ sceneLoaded |-> s.sceneLoaded, configReady |-> s.configReady,
              cameraReady |-> s.cameraReady ]

tryStartAR_ignoresCamera(s, arSystem) ==
  IF ~s.sceneLoaded \/ ~s.configReady THEN s
  ELSE IF arSystem THEN [s EXCEPT !.startTimers = @ + 1, !.scheduled = @ + 1]
  ELSE [s EXCEPT !.missing = TRUE]

\* tryStartAR(): returns unless the three flags are set; with a MindAR system on the
\* scene it schedules the timeout that calls arSystem.start() (scheduled counts these),
\* without one it logs 'MindAR system not found' (missing).
tryStartAR(s, arSystem) ==
  IF ~s.sceneLoaded \/ ~s.configReady \/ ~s.cameraReady THEN s
  ELSE IF arSystem THEN [s EXCEPT !.startTimers = @ + 1, !.scheduled = @ + 1]
  ELSE [s EXCEPT !.missing = TRUE]

\* Every task begins with no arSystem.start() call of its own.
Task(s) == [s EXCEPT !.lastStart = << >>]

startupFrame ==
  UNCHANGED << assets, CONFIG, clientReady, useSupabase, products, globalSettings, cache,
               loadResult, subscription, tracked, loaderCurrentProduct, productUI,
               windowEvents, eventQueue, inserted, currentProduct, identifiedAt,
               detectionInProgress, timers, delays, sinceAttempt, isProcessing,
               confidenceThreshold, stats, predicting, lastClassification,
               requeued, sending, lastTelemetry >>

\* sceneEl 'loaded'.
SceneLoaded(arSystem) ==
  /\ ~startup.sceneLoaded
  /\ startup.scheduled < MaxStartTimers
  /\ startup' = tryStartAR([Task(startup) EXCEPT !.sceneLoaded = TRUE], arSystem)
  /\ UNCHANGED << entities, initialized, mlReady >>
  /\ startupFrame

\* window 'ar-config-ready': the first listener begins initializeML, the second sets
\* configReady and calls tryStartAR().
ConfigReady(arSystem) ==
  /\ startup.scheduled < MaxStartTimers
  /\ startup.mlInits < MaxStartTimers
  /\ startup' = tryStartAR([Task(startup) EXCEPT !.configReady = TRUE,
                                                 !.mlInits = @ + 1], arSystem)
  /\ UNCHANGED << entities, initialized, mlReady >>
  /\ startupFrame

\* initializeML resumes after mlClassifier.initialize(products) settles.
MLInitSettles(librariesLoaded, modelLoads) ==
  /\ startup.mlInits > 0
  /\ startup' = [Task(startup) EXCEPT !.mlInits = @ - 1]
  /\ LET r == initialize(products, librariesLoaded, modelLoads)
     IN /\ initialized' = r.initialized
        /\ mlReady' = initializeML(r)
  /\ UNCHANGED entities
  /\ startupFrame

\* getUserMedia settles: granted starts the poll and the ten-second timeout, denied
\* only alerts.
CameraAnswers(granted) ==
  /\ startup.camera = "asking"
  /\ startup' = IF granted
                THEN [Task(startup) EXCEPT !.camera = "polling", !.timeoutPending = TRUE]
                ELSE [Task(startup) EXCEPT !.camera = "denied"]
  /\ UNCHANGED << entities, initialized, mlReady >>
  /\ startupFrame

\* The poll finds the video element with readyState >= 2.
VideoReady(arSystem) ==
  /\ startup.camera = "polling"
  /\ startup.scheduled < MaxStartTimers
  /\ startup' = tryStartAR([Task(startup) EXCEPT !.camera = "stopped",
                                                 !.cameraReady = TRUE], arSystem)
  /\ UNCHANGED << entities, initialized, mlReady >>
  /\ startupFrame

CameraTimeout_onlyClears(arSystem) ==
  /\ startup.timeoutPending
  /\ startup' = [Task(startup) EXCEPT !.timeoutPending = FALSE,
                                     !.camera = IF @ = "polling" THEN "timedOut" ELSE @]
  /\ UNCHANGED << entities, initialized, mlReady >>
  /\ startupFrame

\* The ten-second timeout: the poll is cleared; without cameraReady the flag is set
\* and tryStartAR() is called all the same.
CameraTimeout(arSystem) ==
  /\ startup.timeoutPending
  /\ startup.scheduled < MaxStartTimers
  /\ LET s == [Task(startup) EXCEPT !.timeoutPending = FALSE,
                                    !.camera = IF @ = "polling" THEN "timedOut" ELSE @]
     IN startup' = IF s.cameraReady THEN s
                   ELSE tryStartAR([s EXCEPT !.cameraReady = TRUE], arSystem)
  /\ UNCHANGED << entities, initialized, mlReady >>
  /\ startupFrame

\* The timeout of tryStartAR(): arSystem.start() is called; unless it throws, the
\* timeout of setupMLEventListeners() is scheduled.
StartTimer(throws) ==
  /\ startup.startTimers > 0
  /\ startup.setupTimers < MaxStartTimers
  /\ startup' = [startup EXCEPT !.startTimers = @ - 1,
                                !.lastStart = << Ready(startup) >>,
                                !.started = TRUE,
                                !.setupTimers = IF throws THEN @ ELSE @ + 1]
  /\ UNCHANGED << entities, initialized, mlReady >>
  /\ startupFrame

\* The timeout of setupMLEventListeners().
SetupTimer ==
  /\ startup.setupTimers > 0
  /\ startup' = [Task(startup) EXCEPT !.setupTimers = @ - 1]
  /\ entities' = setupMLEventListeners(entities)
  /\ UNCHANGED << initialized, mlReady >>
  /\ startupFrame

\* The page with its catalog loaded and its scene generated, before any start-up
\* event of app.js.
InitStartup ==
  /\ CONFIG = [ supabaseEnabled |-> FALSE, analyticsEnabled |-> FALSE,
                fallbackToJSON |-> FALSE, batchEvents |-> FALSE,
                cacheConfig |-> FALSE, sessionId |-> "session_1_a" ]
  /\ clientReady = TRUE
  /\ Constructed
  /\ startup = NotStarted
  /\ products \in { DocProducts2, DocProducts3 }
  /\ globalSettings = << 3 >>
  /\ eventQueue = << >>
  /\ inserted = << >>
  /\ entities = generateScene(products)
  /\ assets = createAssets(<< >>, products)
  /\ initialized = FALSE
  /\ mlReady = FALSE

NextStartup ==
  \/ \E arSystem \in BOOLEAN : SceneLoaded(arSystem)
  \/ \E arSystem \in BOOLEAN : ConfigReady(arSystem)
  \/ \E librariesLoaded \in BOOLEAN, modelLoads \in BOOLEAN :
       MLInitSettles(librariesLoaded, modelLoads)
  \/ \E granted \in BOOLEAN : CameraAnswers(granted)
  \/ \E arSystem \in BOOLEAN : VideoReady(arSystem)
  \/ \E arSystem \in BOOLEAN : CameraTimeout(arSystem)
  \/ \E throws \in BOOLEAN : StartTimer(throws)
  \/ SetupTimer

SpecStartup == InitStartup /\ [][NextStartup]_vars

\* Start-up in which the page dispatches 'ar-config-ready' once, under the event
\* loop's scheduling: a pending timeout fires.
NextStartupOnce ==
  \/ \E arSystem \in BOOLEAN : SceneLoaded(arSystem)
  \/ \E arSystem \in BOOLEAN : ~startup.configReady /\ ConfigReady(arSystem)
  \/ \E librariesLoaded \in BOOLEAN, modelLoads \in BOOLEAN :
       MLInitSettles(librariesLoaded, modelLoads)
  \/ \E granted \in BOOLEAN : CameraAnswers(granted)
  \/ \E arSystem \in BOOLEAN : VideoReady(arSystem)
  \/ \E arSystem \in BOOLEAN : CameraTimeout(arSystem)
  \/ \E throws \in BOOLEAN : StartTimer(throws)
  \/ SetupTimer

FairStartup ==
  /\ WF_vars(\E arSystem \in BOOLEAN : CameraTimeout(arSystem))
  /\ WF_vars(\E throws \in BOOLEAN : StartTimer(throws))

SpecStartupOnce == InitStartup /\ [][NextStartupOnce]_vars /\ FairStartup

(***************************************************************************)
(* The loader across backend changes: loads and reloads that may fall      *)
(* back, switchToSupabase(), the real-time callback, and the analytics of  *)
(* the product found / lost handlers and of the UI buttons.                *)
(***************************************************************************)
\* products.json with one product whose UI has a button.
DocProductsButton ==
  << [ Product("product-1", 0, Path("local", "targets.mind"), Interactions(TRUE, FALSE, TRUE))
         EXCEPT !.ui = << UI("#ff0000", "product-1", << [id |-> "learn-more"] >>) >> ] >>

\* switchToSupabase(): nothing when Supabase is in use or not enabled; otherwise
\* useSupabase is set, then loadConfig() and, unless it rejects, generateScene().
SwitchToSupabase(pr, sr) ==
  /\ ~useSupabase
  /\ CONFIG.supabaseEnabled
  /\ LET l == [ products |-> products, globalSettings |-> globalSettings, cache |-> cache,
                eventQueue |-> eventQueue, inserted |-> << >> ]
         first == loadFromSupabase(l, pr, << >>, FALSE)
         fell == first.threw /\ CONFIG.fallbackToJSON
         out == IF fell THEN loadFromJSON(first.l, sr, first.queried) ELSE first
     IN /\ Len(out.l.eventQueue) <= MaxEventQueue
        /\ useSupabase' = ~fell
        /\ products' = out.l.products
        /\ globalSettings' = out.l.globalSettings
        /\ cache' = out.l.cache
        /\ eventQueue' = out.l.eventQueue
        /\ inserted' = out.l.inserted
        /\ Pushed(out.l.eventQueue)
        /\ loadResult' = [ status |-> IF out.threw THEN "rejected" ELSE "resolved",
                           source |-> out.source, config |-> out.config,
                           readJSON |-> out.readJSON, queried |-> out.queried,
                           validation |-> out.validation,
                           usedSupabase |-> TRUE, primary |-> pr, secondary |-> sr,
                           call |-> "switchToSupabase", memoized |-> << >> ]
        /\ entities' = IF out.threw THEN entities ELSE generateScene(out.l.products)
        /\ assets' = IF out.threw THEN assets ELSE createAssets(assets, out.l.products)
        /\ Len(assets') <= MaxAssets
  /\ lastTelemetry' = NoTelemetry
  /\ UNCHANGED << startup, CONFIG, clientReady, tracked, loaderCurrentProduct, productUI,
                  windowEvents, mlReady, currentProduct, identifiedAt, detectionInProgress,
                  timers, delays, sinceAttempt, classifierVars, lastClassification,
                  requeued, sending, subscription >>

\* A click on button b of the product whose UI panel is shown (the listener attached by
\* showProductUI): tracked when Supabase is in use, then 'ar-button-click'.
ButtonClick(i, b) ==
  /\ i \in 1..Len(products)
  /\ productUI = products[i].id
  /\ products[i].ui # << >>
  /\ b \in 1..Len(products[i].ui[1].buttons)
  /\ LET s == [eventQueue |-> eventQueue, inserted |-> << >>]
         s1 == IF useSupabase /\ CONFIG.analyticsEnabled
               THEN trackEvent(s, "button_clicked", products[i].id)
               ELSE s
     IN /\ Len(s1.eventQueue) <= MaxEventQueue
        /\ eventQueue' = s1.eventQueue
        /\ inserted' = s1.inserted
        /\ Pushed(s1.eventQueue)
  /\ windowEvents' = << WindowEvent("ar-button-click", products[i].id, products[i].targetIndex) >>
  /\ lastTelemetry' = NoTelemetry
  /\ lastClassification' = NoClassification
  /\ UNCHANGED << loaderVars, tracked, loaderCurrentProduct, productUI, mlReady,
                  currentProduct, identifiedAt, detectionInProgress, timers, delays,
                  sinceAttempt, classifierVars, requeued, sending >>

\* Supabase enabled with a ready client, analytics on and sent one by one, falling
\* back allowed.
InitSticky ==
  /\ InitLoad
  /\ CONFIG.supabaseEnabled
  /\ CONFIG.analyticsEnabled
  /\ CONFIG.fallbackToJSON
  /\ ~CONFIG.batchEvents
  /\ ~CONFIG.cacheConfig
  /\ clientReady

StickyPrimary == { [error |-> TRUE, data |-> << >>], [error |-> FALSE, data |-> Rows1] }

StickySecondary ==
  { [ok |-> FALSE, hasProducts |-> FALSE, products |-> << >>, globalSettings |-> << >>],
    [ok |-> TRUE, hasProducts |-> TRUE, products |-> DocProductsButton,
     globalSettings |-> <<1>>] }

NextSticky ==
  \/ \E pr \in StickyPrimary, sr \in StickySecondary : LoadConfig(pr, << >>, sr, FALSE)
  \/ \E pr \in StickyPrimary, sr \in StickySecondary : Reload(pr, << >>, sr, FALSE)
  \/ \E pr \in StickyPrimary, sr \in StickySecondary : SwitchToSupabase(pr, sr)
  \/ GenerateScene
  \/ EnableRealTimeUpdates
  \/ \E pr \in StickyPrimary : ProductChange(pr, << >>, FALSE)
  \/ \E t \in TargetIndices : TargetFound(t)
  \/ \E t \in TargetIndices : TargetLost(t)
  \/ \E i \in 1..Len(products), b \in {1} : ButtonClick(i, b)

SpecSticky == InitSticky /\ [][NextSticky]_vars

(***************************************************************************)
(* Properties.                                                             *)
(***************************************************************************)
EventsOfType(events, type) == SelectSeq(events, LAMBDA e : e.type = type)

Range(seq) == { seq[i] : i \in 1..Len(seq) }

\* The products bound to target t, and the targets carrying two products or more.
ProductsAt(t) == { p \in Range(products) : p.targetIndex = t }
Shared(t) == Cardinality(ProductsAt(t)) >= 2
Solo(t) == Cardinality(ProductsAt(t)) = 1

\* The tracking target of the entity the app.js listeners know as index.
TargetOfIndex(index) == entities[index + 1].targetIndex

TelemetryOn == useSupabase /\ CONFIG.analyticsEnabled /\ clientReady

\* Analytics events the last task queued or sent (the queue only grows within a task).
Tracked == Range(inserted) \cup Range(eventQueue)

\* C1: a classification result that arrives after its target was lost is discarded:
\* no product-identified event is dispatched (and so onProductFound is not called
\* and currentProduct is not set) for a target that is not currently found.
C1_LostTargetResultDiscarded ==
  \A e \in Range(EventsOfType(windowEvents, "product-identified")) :
    TargetOfIndex(e.targetIndex) \in tracked

\* C2: single-flight: at most one model.predict call is in progress, and a
\* classifyProduct call made while one is in progress is rejected without starting
\* another.
C2_SingleFlight ==
  /\ Len(predicting) <= 1
  /\ predicting # << >> => isProcessing
  /\ \A c \in Range(lastClassification) :
       c.call = "predict" => predicting = << c.index >>

C2_Witness ==
  /\ Len(predicting) = 1
  /\ \E c \in Range(lastClassification) : c.call = "rejected" /\ initialized

\* C3: threshold law: a completed inference returns a result exactly when a top
\* prediction reaches the confidence threshold and its label is mapped to a product
\* id (the result carries that label, confidence and product id); every other
\* completed inference returns null and adds one to failedMatches.
MaxProbability(predictions) ==
  CHOOSE m \in { p.probability : p \in Range(predictions) } :
    \A p \in Range(predictions) : p.probability <= m

TopPredictions(predictions) ==
  { p \in Range(predictions) : p.probability = MaxProbability(predictions) }

Completed(c) == c.call = "returned" /\ ~c.outcome.threw /\ c.outcome.predictions # << >>

C3_ThresholdLaw ==
  [][ \A c \in Range(lastClassification') :
        Completed(c) =>
          /\ c.result # << >> =>
               \E p \in TopPredictions(c.outcome.predictions) :
                 /\ p.probability >= confidenceThreshold
                 /\ p.className \in DOMAIN labelMap
                 /\ c.result[1] = [ productId |-> labelMap[p.className],
                                    confidence |-> p.probability,
                                    label |-> p.className ]
          /\ c.result = << >> =>
               /\ \E p \in TopPredictions(c.outcome.predictions) :
                    \/ p.probability < confidenceThreshold
                    \/ p.className \notin DOMAIN labelMap
               /\ stats'.failedMatches = stats.failedMatches + 1
               /\ stats'.successfulMatches = stats.successfulMatches ]_vars

\* An inference whose top prediction is mapped but below the threshold returned null
\* and was counted as failed; the threshold is the default one.
C3_Witness ==
  /\ confidenceThreshold = DefaultConfidenceThreshold
  /\ stats.failedMatches >= 1
  /\ \E c \in Range(lastClassification) :
       /\ Completed(c)
       /\ c.result = << >>
       /\ \A p \in TopPredictions(c.outcome.predictions) :
            p.className \in DOMAIN labelMap /\ p.probability = confidenceThreshold - 1

\* The last loadConfig() call went to Supabase first and the query failed with an error.
PrimaryThrew ==
  /\ loadResult.status # "none"
  /\ loadResult.usedSupabase
  /\ loadResult.queried
  /\ loadResult.primary.error

\* The last loadConfig() call went to Supabase first and the query returned no rows.
PrimaryEmpty ==
  /\ loadResult.status # "none"
  /\ loadResult.usedSupabase
  /\ loadResult.queried
  /\ ~loadResult.primary.error
  /\ loadResult.primary.data = << >>

SecondaryServes == loadResult.secondary.ok /\ loadResult.secondary.hasProducts

ResolvedWithSecondary ==
  /\ loadResult.status = "resolved"
  /\ loadResult.source = "products.json"
  /\ loadResult.readJSON
  /\ loadResult.config[1].products = loadResult.secondary.products
  /\ loadResult.config[1].globalSettings = loadResult.secondary.globalSettings
  /\ products = loadResult.secondary.products
  /\ globalSettings = loadResult.secondary.globalSettings

\* C4: when Supabase throws during load and fallbackToJSON is enabled, loadConfig()
\* resolves with the products.json catalog (given the document can be read), and the
\* loader's products are those of that document.
C4_FallbackEnabled ==
  (PrimaryThrew /\ CONFIG.fallbackToJSON /\ SecondaryServes) => ResolvedWithSecondary

C4_Witness ==
  /\ PrimaryThrew /\ CONFIG.fallbackToJSON /\ SecondaryServes
  /\ loadResult.status = "resolved"
  /\ Len(products) = 3

\* C5: when Supabase fails (an error or no rows) and fallbackToJSON is disabled,
\* loadConfig() does not read products.json and rejects.
C5_FallbackDisabled ==
  ((PrimaryThrew \/ PrimaryEmpty) /\ ~CONFIG.fallbackToJSON) =>
    /\ loadResult.status = "rejected"
    /\ ~loadResult.readJSON
    /\ useSupabase

C5_Witness ==
  /\ PrimaryThrew /\ ~CONFIG.fallbackToJSON /\ SecondaryServes
  /\ loadResult.status = "rejected"
  /\ ~loadResult.readJSON

\* C6: when Supabase returns no rows (no transport error) and fallbackToJSON is
\* enabled, loadConfig() resolves with the products of products.json.
C6_EmptyPrimaryFallsBack ==
  (PrimaryEmpty /\ CONFIG.fallbackToJSON /\ SecondaryServes) => ResolvedWithSecondary

C6_Witness ==
  /\ PrimaryEmpty /\ CONFIG.fallbackToJSON /\ SecondaryServes
  /\ loadResult.status = "resolved"
  /\ products = DocProducts3

\* Nothing is found, identified or being classified.
Idle ==
  /\ tracked = {}
  /\ currentProduct = << >>
  /\ loaderCurrentProduct = << >>
  /\ ~detectionInProgress
  /\ timers = << >>
  /\ predicting = << >>

LostNotifications(events) ==
  { e \in Range(events) : e.type \in {"product-lost", "ar-product-lost"} }

\* C7: a target_lost signal that arrives while the session is already idle has no
\* side effect: no product-lost notification is dispatched and no product_lost
\* telemetry is recorded.
C7_LostWhileIdleIsSilent ==
  [][ (Idle /\ tracked' = {}) =>
        /\ LostNotifications(windowEvents') = {}
        /\ \A a \in Range(inserted') : a.event_type # "product_lost"
        /\ eventQueue' = eventQueue
        /\ productUI' = productUI ]_vars

\* The model of product id is on screen: its entity's target is tracked and its
\* a-gltf-model is not hidden.
ModelVisible(id) ==
  \E i \in 1..Len(entities) :
    /\ entities[i].product.id = id
    /\ entities[i].modelVisible
    /\ entities[i].targetIndex \in tracked

\* C8: scenario A: when the classifier identifies product-1 on the tracked target it
\* shares with product-2, the session is identified as product-1, product-1's model
\* is the visible one and product-2's is hidden, and product_found telemetry is
\* recorded for product-1.
C8_ScenarioA ==
  \A e \in Range(EventsOfType(windowEvents, "product-identified")) :
    ( /\ e.productId = "product-1"
      /\ Shared(TargetOfIndex(e.targetIndex))
      /\ TargetOfIndex(e.targetIndex) \in tracked ) =>
      /\ currentProduct # << >> /\ currentProduct[1].id = "product-1"
      /\ ModelVisible("product-1")
      /\ ~ModelVisible("product-2")
      /\ TelemetryOn => AnalyticsEvent("product_found", "product-1") \in Tracked

\* The classification returned null for want of confidence, on a tracked target that
\* two products share, with no product identified before it.
LowConfidenceOnShared(c) ==
  /\ Completed(c)
  /\ c.result = << >>
  /\ MaxProbability(c.outcome.predictions) < confidenceThreshold
  /\ Shared(TargetOfIndex(c.index))
  /\ TargetOfIndex(c.index) \in tracked
  /\ currentProduct = << >>

\* C9: scenario B: when the classifier's top confidence on a shared target is below
\* the threshold, no product is identified: the task records no product_found
\* telemetry and dispatches no found notification, and no onFound side effect has
\* run for a product of the target (no product UI is shown, no product is current).
C9_ScenarioB ==
  [][ \A c \in Range(lastClassification') :
        LowConfidenceOnShared(c) =>
          /\ currentProduct' = << >>
          /\ loaderCurrentProduct' = << >>
          /\ productUI' = NULL
          /\ \A a \in Range(inserted') : a.event_type # "product_found"
          /\ EventsOfType(windowEvents', "ar-product-found") = << >>
          /\ EventsOfType(windowEvents', "product-identified") = << >> ]_vars

\* C10: scenario C: classifyProduct is never called for a solo target: no timer is
\* pending, no call is made and no model.predict is in progress on behalf of an
\* entity whose target carries a single product.
C10_ScenarioC ==
  /\ \A i \in 1..Len(timers) : ~Solo(TargetOfIndex(timers[i]))
  /\ \A i \in 1..Len(predicting) : ~Solo(TargetOfIndex(predicting[i]))
  /\ \A c \in Range(lastClassification) : ~Solo(TargetOfIndex(c.index))

\* C11: throttle: two classification attempts never start less than the throttle
\* interval apart: whenever model.predict is started, at least throttleInterval
\* milliseconds have passed since it was last started.
C11_Throttle ==
  [][ (\E c \in Range(lastClassification') : c.call = "predict") =>
        sinceAttempt >= throttleInterval ]_vars

\* C12: retry liveness: once the shared target is found with the classifier ready,
\* it is eventually lost or a product of it is identified (or the classification
\* counter has reached the bound of the model): a failed or skipped attempt is
\* followed by another while the target stays found.
IdentifiedOn(t) == currentProduct # << >> /\ currentProduct[1].targetIndex = t

C12_RetryLiveness ==
  (0 \in tracked /\ mlReady) ~>
     \/ 0 \notin tracked
     \/ IdentifiedOn(0)
     \/ stats.totalClassifications >= MaxClassifications

\* A timer or a model.predict call is pending on behalf of an entity of target t.
PendingFor(t) ==
  \/ \E i \in 1..Len(timers) : TargetOfIndex(timers[i]) = t
  \/ \E i \in 1..Len(predicting) : TargetOfIndex(predicting[i]) = t

\* The classification session of target t holds the busy flag.
Busy(t) == detectionInProgress /\ PendingFor(t)

\* C13: per-target independence: a target found with the classifier ready and no
\* classification pending for it starts one, whatever is pending for other targets;
\* and the loss of a target leaves the busy state of every other target as it was.
C13_PerTargetIndependence ==
  [][ \A t \in TargetIndices :
        /\ (t \notin tracked /\ t \in tracked' /\ mlReady /\ ~PendingFor(t)) =>
             PendingFor(t)'
        /\ (t \in tracked /\ t \notin tracked') =>
             \A u \in TargetIndices \ {t} : Busy(u)' = Busy(u) ]_vars

\* C14: partitioning: generateScene emits one entity per distinct targetIndex of the
\* catalog (a shared group of N products is one entity, not N).
DistinctTargetIndices(prods) == { prods[i].targetIndex : i \in 1..Len(prods) }

C14_OneEntityPerTargetIndex ==
  [][ entities' # entities =>
        /\ Len(entities') = Cardinality(DistinctTargetIndices(products'))
        /\ \A t \in DistinctTargetIndices(products') :
             Cardinality({ i \in 1..Len(entities') : entities'[i].targetIndex = t }) = 1
    ]_vars

\* C15: single visible model: among the models of the products that share a tracked
\* target, at most one is visible.
C15_SingleVisibleModel ==
  \A t \in tracked :
    Cardinality({ p \in ProductsAt(t) : ModelVisible(p.id) }) <= 1

\* C16: when the classifier failed to initialise it stays not ready: isReady() is
\* false and stays false, classifyProduct returns null before any inference, and no
\* classification is scheduled, started or in progress when targets are found.
C16_InitFailureIsPermanent ==
  /\ [](~initialized =>
          /\ ~isReady(initialized)
          /\ ~mlReady
          /\ \A videoReady \in BOOLEAN : classifyProduct_start(videoReady) = "reject"
          /\ timers = << >>
          /\ predicting = << >>
          /\ lastClassification = NoClassification
          /\ stats = ZeroStats)
  /\ [][~initialized => ~initialized']_vars

C16_Witness ==
  /\ ~initialized
  /\ tracked = {0, 1}
  /\ EventsOfType(windowEvents, "ar-product-found") # << >>

TrackCalls(calls) == { c \in Range(calls) : c.call = "trackEvent" }

\* C17: with analyticsEnabled false trackEvent does nothing: nothing is handed to the
\* transport and the event queue is unchanged.
C17_DisabledTrackIsNoOp ==
  [][ \A c \in TrackCalls(lastTelemetry') :
        ~CONFIG.analyticsEnabled =>
          /\ inserted' = << >>
          /\ eventQueue' = eventQueue
          /\ sending' = sending ]_vars

C17_Witness ==
  /\ ~CONFIG.analyticsEnabled
  /\ clientReady
  /\ CONFIG.batchEvents
  /\ \E c \in TrackCalls(lastTelemetry) : c.eventType \in TrackEvents
  /\ eventQueue = << >>

\* The call reaches the end of trackEvent: analytics on, client ready, type tracked.
Recorded(c) == CONFIG.analyticsEnabled /\ clientReady /\ c.eventType \in TrackEvents

\* C18: with batching enabled trackEvent only appends the event to the queue, and
\* a tick of the processor sends all queued events as one bulk insert; with batching
\* disabled trackEvent sends the event at once and the queue stays empty.
C18_BatchingLaw ==
  [][ /\ \A c \in TrackCalls(lastTelemetry') :
           Recorded(c) =>
             IF CONFIG.batchEvents
             THEN /\ eventQueue' = Append(eventQueue, AnalyticsEvent(c.eventType, c.productId))
                  /\ inserted' = << >>
                  /\ sending' = sending
             ELSE /\ inserted' = << AnalyticsEvent(c.eventType, c.productId) >>
                  /\ eventQueue' = << >>
                  /\ sending' = sending
      /\ \A c \in Range(lastTelemetry') :
           c.call = "tick" =>
             /\ CONFIG.batchEvents
             /\ eventQueue' = << >>
             /\ eventQueue # << >> =>
                  /\ Len(sending') = Len(sending) + 1
                  /\ sending'[Len(sending')].events = eventQueue
                  /\ inserted' = eventQueue
             /\ eventQueue = << >> => (sending' = sending /\ inserted' = << >>)
      /\ ~CONFIG.batchEvents => (eventQueue' = << >> /\ sending' = << >>) ]_vars

\* A tick has sent two queued events as one bulk insert.
C18_Witness ==
  /\ CONFIG.batchEvents
  /\ \E c \in Range(lastTelemetry) : c.call = "tick"
  /\ eventQueue = << >>
  /\ Len(sending) = 1
  /\ Len(sending[1].events) = 2
  /\ inserted = sending[1].events

\* C19: an event whose transmission fails is put back on the queue at most once:
\* no queued or in-flight event has been put back more than once.
C19_RequeuedAtMostOnce ==
  /\ \A i \in 1..Len(requeued) : requeued[i] <= 1
  /\ \A k \in 1..Len(sending) :
       \A i \in 1..Len(sending[k].requeued) : sending[k].requeued[i] <= 1

\* C20: flushEventQueue, and cleanup which awaits it, never reject: whatever the
\* transport answers, sendEventBatch resolves.
C20_FlushNeverThrows ==
  \A c \in Range(lastTelemetry) :
    c.call \in {"cleanup", "flush", "batch", "tick"} => c.result # "rejected"

\* The insert of a flush threw, and the flush resolved.
C20_Witness ==
  \E c \in Range(lastTelemetry) :
    c.call = "flush" /\ c.outcome = "throw" /\ c.result = "resolved"

\* C21: on page teardown the queue is drained: cleanup() hands every event queued
\* before it to the transport and leaves the queue empty, and when the transport
\* accepts the flush none of its events is put back.
C21_TeardownDrainsQueue ==
  [][ \A c \in Range(lastTelemetry') :
        /\ c.call = "cleanup" => (eventQueue' = << >> /\ inserted' = eventQueue)
        /\ (c.call = "flush" /\ c.outcome = "ok") => eventQueue' = eventQueue ]_vars

\* The analytics events in existence: queued, in a bulk insert in progress, or
\* handed to the transport by the last task.
RECURSIVE Sent(_)
Sent(batches) ==
  IF batches = << >> THEN {}
  ELSE Range(Head(batches).events) \cup Sent(Tail(batches))

Events == Range(eventQueue) \cup Range(inserted) \cup Sent(sending)

\* C22: every analytics event of a page session carries the session identifier
\* generated at startup, which never changes: no two events of a session differ in
\* session_id.
C22_OneSessionId ==
  /\ [](\A e \in Events : e.session_id = CONFIG.sessionId)
  /\ [][CONFIG'.sessionId = CONFIG.sessionId]_vars

\* An event is queued while an earlier one is in a bulk insert; both carry the
\* session's id.
C22_Witness ==
  /\ eventQueue # << >>
  /\ sending # << >>
  /\ eventQueue[1].session_id = sending[1].events[1].session_id
  /\ eventQueue[1].session_id = CONFIG.sessionId

\* The last load went to the primary backend and its query returned rows.
PrimaryServed(call) ==
  /\ loadResult.call = call
  /\ loadResult.usedSupabase
  /\ ~loadResult.primary.error
  /\ loadResult.primary.data # << >>

\* C23: reload() invalidates the product cache: the load it makes while Supabase is
\* in use queries the backend, fresh cached entry or not, and a catalog it loads
\* from Supabase is the one of the rows the backend answered with.
C23_ReloadBypassesCache ==
  (loadResult.call = "reload" /\ loadResult.usedSupabase) =>
    /\ loadResult.queried
    /\ PrimaryServed("reload") =>
         /\ loadResult.status = "resolved"
         /\ products = convertProducts(loadResult.primary.data)

\* reload() ran over a fresh cached entry holding other rows than the backend now
\* answers with.
C23_Witness ==
  /\ PrimaryServed("reload")
  /\ loadResult.memoized # << >>
  /\ loadResult.memoized[1] # loadResult.primary.data
  /\ loadResult.queried

\* C28: with real-time updates enabled, a product-change notification makes the
\* provider load the catalog from the backend's current data and regenerate the
\* scene: after the callback the catalog is the one of the rows the backend holds
\* now, not a cached copy.
C28_RealTimeReloads ==
  PrimaryServed("productChange") =>
    /\ products = convertProducts(loadResult.primary.data)
    /\ entities = generateScene(products)

\* The products reference more than one target file.
Inconsistent(prods) ==
  Cardinality({ prods[i].target.imagePath : i \in 1..Len(prods) }) > 1

\* C24: inconsistent target paths are not fatal: a load whose backend serves products
\* that reference different target files resolves with the full catalog; validation
\* only reports.
C24_InconsistentTargetsNonFatal ==
  /\ ( /\ loadResult.readJSON
       /\ SecondaryServes
       /\ Inconsistent(loadResult.secondary.products) ) =>
       /\ loadResult.status = "resolved"
       /\ products = loadResult.secondary.products
       /\ loadResult.validation = "multiple files"
  /\ ( /\ PrimaryServed("loadConfig")
       /\ loadResult.queried
       /\ Inconsistent(convertProducts(loadResult.primary.data)) ) =>
       /\ loadResult.status = "resolved"
       /\ loadResult.source = "Supabase"
       /\ products = convertProducts(loadResult.primary.data)
       /\ loadResult.validation = "multiple files"

\* Supabase served two products with different target files, and the load resolved.
C24_Witness ==
  /\ PrimaryServed("loadConfig")
  /\ loadResult.source = "Supabase"
  /\ Inconsistent(products)
  /\ Len(products) = 2
  /\ loadResult.validation = "multiple files"

\* The nested sections of a product are there.
Populated(p) == p.model # << >> /\ p.ui # << >>

\* C25: after a successful load from either backend every product of the catalog
\* has all its nested sections: those the backend's data lacks are filled with
\* defaults.
C25_SectionsPopulated ==
  loadResult.status = "resolved" => \A p \in Range(products) : Populated(p)

\* C26: after a successful load no two products of the catalog share an id.
C26_UniqueIds ==
  loadResult.status = "resolved" =>
    \A i, j \in 1..Len(products) : i # j => products[i].id # products[j].id

\* C29: a catalog loaded from Supabase gives each product the interactions stored
\* for it there: for a migrated document, those the document gives the product.
C29_InteractionsFromBackend ==
  \A doc \in MigratedDocuments :
    ( /\ loadResult.status = "resolved"
      /\ loadResult.source = "Supabase"
      /\ loadResult.primary.data = selectProducts(Migrated(doc)) ) =>
      /\ Len(products) = Len(doc)
      /\ \A i \in 1..Len(doc) :
           /\ products[i].id = doc[i].id
           /\ products[i].interactions = doc[i].interactions

\* C27: a classification that recognises nothing (low confidence, no match, or no
\* inference at all) leaves the identified product as it was: currentProduct, the
\* loader's current product and the product UI are unchanged, and the task notifies
\* nobody and records no telemetry.
C27_NoMatchPreservesState ==
  [][ \A c \in Range(lastClassification') :
        (c.call \in {"returned", "rejected"} /\ c.result = << >>) =>
          /\ currentProduct' = currentProduct
          /\ loaderCurrentProduct' = loaderCurrentProduct
          /\ productUI' = productUI
          /\ windowEvents' = << >>
          /\ inserted' = << >>
          /\ eventQueue' = eventQueue ]_vars

\* A product is identified and its UI shown, and the last inference on the still
\* tracked target came back below the threshold.
C27_Witness ==
  /\ currentProduct # << >>
  /\ productUI = currentProduct[1].id
  /\ currentProduct[1].targetIndex \in tracked
  /\ \E c \in Range(lastClassification) :
       /\ Completed(c)
       /\ c.result = << >>
       /\ MaxProbability(c.outcome.predictions) < confidenceThreshold

\* C30: arSystem.start() is called only while sceneLoaded, configReady and cameraReady
\* are all set, whatever the order of the three events: every call made by a task
\* sees the three flags set, and a pending start timeout or a past call implies them.
C30_StartOnlyWhenReady ==
  /\ \A c \in Range(startup.lastStart) :
       c.sceneLoaded /\ c.configReady /\ c.cameraReady
  /\ (startup.startTimers > 0 \/ startup.started) =>
       startup.sceneLoaded /\ startup.configReady /\ startup.cameraReady

\* arSystem.start() has just been called after the poll found the video ready.
C30_Witness ==
  /\ startup.lastStart # << >>
  /\ startup.started
  /\ startup.timeoutPending
  /\ startup.camera = "stopped"

\* The camera was granted and both page events have occurred.
GrantedAndLoaded ==
  /\ startup.sceneLoaded
  /\ startup.configReady
  /\ startup.camera \notin {"asking", "denied"}

C32_LostReportsOwnTarget ==
  [][ \A t \in TargetIndices :
        (t \in tracked /\ t \notin tracked' /\ currentProduct # << >>
           /\ identifiedAt # << t >>) =>
          /\ currentProduct' = currentProduct
          /\ currentProduct[1].targetIndex # t =>
               \A e \in Range(windowEvents') :
                 e.type = "ar-product-lost" => e.productId # currentProduct[1].id ]_vars

\* C33: whatever classifyProduct, resetStats and setConfidenceThreshold calls are made
\* (rejected calls and throwing inferences included), totalClassifications =
\* successfulMatches + failedMatches, and successfulMatches grows exactly in the tasks
\* in which classifyProduct returns a non-null result, by one.
C33_StatsBalance ==
  /\ stats.totalClassifications = stats.successfulMatches + stats.failedMatches
  /\ [][ /\ stats'.totalClassifications = stats'.successfulMatches + stats'.failedMatches
         /\ stats'.successfulMatches > stats.successfulMatches <=>
              \E c \in Range(lastClassification') : c.call = "returned" /\ c.result # << >>
         /\ stats'.successfulMatches > stats.successfulMatches =>
              stats'.successfulMatches = stats.successfulMatches + 1 ]_vars

\* A match was counted after the threshold had been changed, the statistics balanced.
C33_Witness ==
  /\ stats.successfulMatches = 1
  /\ stats.totalClassifications = 1
  /\ confidenceThreshold # DefaultConfidenceThreshold
  /\ \E c \in Range(lastClassification) : c.call = "returned" /\ c.result # << >>

\* C34: a classifyProduct call whose inference throws returns null and leaves the
\* statistics as they were; isProcessing is false whenever no call is in flight, so
\* that an initialised classifier given a ready video starts a new inference.
C34_ThrowReleasesFlag ==
  /\ predicting = << >> => ~isProcessing
  /\ [][ /\ \A c \in Range(lastClassification') :
              (c.call = "returned" /\ c.outcome.threw) =>
                c.result = << >> /\ stats' = stats
         /\ (predicting' = << >> /\ initialized') =>
              /\ ~isProcessing'
              /\ classifyProduct_start(TRUE)' = "predict" ]_vars

\* An inference has just thrown: no call is in flight and the flag is released.
C34_Witness ==
  /\ \E c \in Range(lastClassification) : c.call = "returned" /\ c.outcome.threw
  /\ predicting = << >>
  /\ ~isProcessing
  /\ initialized

\* The step is a loadConfig() or reload() call.
LoadOrReload ==
  /\ loadResult' # loadResult
  /\ loadResult'.call \in {"loadConfig", "reload"}

\* C35: while useSupabase is false (the loader has fallen back), loadConfig() and
\* reload() read products.json only and leave useSupabase false, no product_found,
\* product_lost or button_clicked event is tracked, and only switchToSupabase() sets
\* useSupabase again.
C35_FallbackSticky ==
  [][ ~useSupabase =>
        /\ LoadOrReload =>
             /\ ~loadResult'.queried
             /\ loadResult'.source # "Supabase"
             /\ loadResult'.readJSON
        /\ \A e \in Range(inserted') \cup (Range(eventQueue') \ Range(eventQueue)) :
             e.event_type \notin {"product_found", "product_lost", "button_clicked"}
        /\ useSupabase' => loadResult'.call = "switchToSupabase" ]_vars

\* After a fallback, a later load has read products.json while the product UI is shown.
C35_Witness ==
  /\ ~useSupabase
  /\ loadResult.call = "reload"
  /\ ~loadResult.usedSupabase
  /\ loadResult.readJSON
  /\ productUI = "product-1"
  /\ tracked # {}

\* Events the client holds: queued, or in a bulk insert that has not settled.
Held == Len(eventQueue) + InFlight(sending)

\* C36: with interval sends and flushes interleaving, an event is never in two places:
\* starting a send moves the whole queue into one batch handed to the transport,
\* an insert answered with an error moves its batch back, a successful (or throwing)
\* insert removes its batch for good, and only trackEvent adds an event, one at a time.
C36_NoDoubleDelivery ==
  [][ \A c \in Range(lastTelemetry') :
        /\ c.call = "trackEvent" => (Held' \in {Held, Held + 1} /\ sending' = sending)
        /\ c.call \in {"tick", "cleanup"} =>
             /\ Held' = Held
             /\ eventQueue' # eventQueue =>
                  /\ eventQueue' = << >>
                  /\ inserted' = eventQueue
                  /\ sending' = Append(sending, sending'[Len(sending')])
                  /\ sending'[Len(sending')].events = eventQueue
        /\ c.call \in {"batch", "flush"} =>
             /\ Len(sending') = Len(sending) - 1
             /\ inserted' = << >>
             /\ c.outcome = "error" => Held' = Held
             /\ c.outcome # "error" =>
                  (eventQueue' = eventQueue /\ Held' < Held) ]_vars

\* A flush and an interval send are in flight at once, each with its own events.
C36_Witness ==
  /\ Len(sending) = 2
  /\ sending[1].flushing # sending[2].flushing
  /\ sending[1].events # << >>
  /\ sending[2].events # << >>

\* product_found events sent in the task.
FoundSent == SelectSeq(inserted, LAMBDA e : e.event_type = "product_found")

\* C37: no task records product_found twice for one product, nor for two products that
\* share a target: of the products on a target only the identified one is recorded.
C37_OneFoundPerEpisode ==
  [][ \A i, j \in 1..Len(FoundSent') :
        i # j =>
          /\ FoundSent'[i].product_id # FoundSent'[j].product_id
          /\ \A p, q \in Range(products) :
               (p.id = FoundSent'[i].product_id /\ q.id = FoundSent'[j].product_id) =>
                 p.targetIndex # q.targetIndex ]_vars

\* The scene holds one target entity per product and a-assets one item per product,
\* in catalog order, and nothing else.
SceneExact ==
  /\ entities = generateScene(products) \/ entities = setupMLEventListeners(generateScene(products))
  /\ assets = [ i \in 1..Len(products) |-> products[i].id ]

\* C38: generateScene is idempotent: once the scene holds exactly one target entity
\* and one asset item per product, any further call over the same catalog (reload,
\* real-time update, backend switch, a direct call) leaves it so, without duplicate
\* asset ids.
C38_GenerateSceneIdempotent ==
  [][ (SceneExact /\ products' = products /\ products # << >>) =>
        /\ SceneExact'
        /\ \A i, j \in 1..Len(assets') : i # j => assets'[i] # assets'[j] ]_vars

\* C39: the targetIndex carried by a product-lost notification is the configured
\* targetIndex of the entity that raised it (the target just lost), and the one carried
\* by a product-identified notification is the configured targetIndex of the entity
\* whose listener ran the classification, shared targets included.
C39_NotifiedTargetIndex ==
  [][ /\ \A t \in TargetIndices :
           (t \in tracked /\ t \notin tracked') =>
             \A e \in Range(EventsOfType(windowEvents', "product-lost")) :
               e.targetIndex = t
      /\ \A c \in Range(lastClassification') :
           \A e \in Range(EventsOfType(windowEvents', "product-identified")) :
             e.targetIndex = TargetOfIndex(c.index) ]_vars


\* C40: a failed load leaves the catalog intact: whenever loadConfig, reload or
\* the real-time reload rejects (primary error, empty primary result, unreachable
\* or malformed products.json), products and globalSettings keep the values they
\* had before the call.
C40_FailedLoadKeepsCatalog ==
  [][ loadResult'.status = "rejected" =>
        /\ products' = products
        /\ globalSettings' = globalSettings ]_vars

====
